---- MODULE Spec2Model ----
(***************************************************************************)
(* CP-SNARK set membership / non-membership (cpsnarks-set): the sigma      *)
(* protocols root, coprime and modeq, the hash-to-prime interface, the     *)
(* transcript-backed channels and the two composites, instantiated over a  *)
(* small group of unknown order and a small prime-order group.             *)
(***************************************************************************)
EXTENDS Integers, Sequences, FiniteSets, TLC

(***************************************************************************)
(* Parameters (parameters.rs).  The instance is a hand-built Parameters    *)
(* value that is_valid accepts and whose soundness parameter is one byte.  *)
(***************************************************************************)
Parameters ==
    [ security_level     |-> 7,
      security_zk        |-> 1,
      security_soundness |-> 8,
      hash_to_prime_bits |-> 12,
      field_size_bits    |-> 14 ]

RECURSIVE u_pow_u(_, _)
u_pow_u(b, n) ==
    IF n = 0 THEN 1
    ELSE LET half == u_pow_u(b, n \div 2)
         IN  IF n % 2 = 0 THEN half * half ELSE half * half * b

(***************************************************************************)
(* The constructors of Parameters and is_valid (parameters.rs).  The       *)
(* Result of a constructor is <<"Ok", value>> or <<"InvalidParameters">>;  *)
(* <<"Panic">> (for is_valid "Panic") stands for a call that panics.       *)
(* The type parameter P of from_curve enters through P::size_in_bits().    *)
(* The fields are u16.  An addition, subtraction or multiplication that    *)
(* leaves u16 panics in a build with overflow checks and wraps in a build  *)
(* without them; a division or remainder by zero panics in both.           *)
(***************************************************************************)
u16_MAX == 65535

u16(x) == x % (u16_MAX + 1)

in_u16(x) == 0 <= x /\ x <= u16_MAX

is_valid(overflow_checks, self) ==
    LET sum == self.security_zk + self.security_soundness + 2
        d   == 1 + u16(sum) \div self.hash_to_prime_bits
        lhs == u16(d) * self.hash_to_prime_bits + 2
    IN  IF overflow_checks /\ ~in_u16(sum) THEN "Panic"
        ELSE IF self.hash_to_prime_bits = 0 THEN "Panic"
        ELSE IF overflow_checks /\ ~(in_u16(d) /\ in_u16(lhs)) THEN "Panic"
        ELSE IF u16(lhs) <= self.field_size_bits
        THEN "Ok"
        ELSE "InvalidParameters"

\* the Parameters of from_security_level and from_curve before is_valid, the
\* results of the arithmetic not yet brought back into u16
standard_fields(security_level, field_size_bits) ==
    [ security_level     |-> security_level,
      security_zk        |-> security_level - 3,
      security_soundness |-> security_level - 2,
      hash_to_prime_bits |-> u16(2 * security_level) - 2,
      field_size_bits    |-> field_size_bits ]

fields_in_u16(security_level, fields) ==
    /\ in_u16(2 * security_level)
    /\ \A k \in DOMAIN fields : in_u16(fields[k])

\* fault: the primes take the whole width of the field
from_security_level_wide(overflow_checks, security_level) ==
    LET fields == [standard_fields(security_level, 2 * security_level)
                       EXCEPT !.hash_to_prime_bits = 2 * security_level]
        parameters == [k \in DOMAIN fields |-> u16(fields[k])]
    IN  IF overflow_checks /\ ~fields_in_u16(security_level, fields) THEN <<"Panic">>
        ELSE LET valid == is_valid(overflow_checks, parameters)
             IN  IF valid = "Ok" THEN <<"Ok", parameters>> ELSE <<valid>>

from_security_level(overflow_checks, security_level) ==
    LET fields == standard_fields(security_level, 2 * security_level)
        parameters == [k \in DOMAIN fields |-> u16(fields[k])]
    IN  IF overflow_checks /\ ~fields_in_u16(security_level, fields) THEN <<"Panic">>
        ELSE LET valid == is_valid(overflow_checks, parameters)
             IN  IF valid = "Ok" THEN <<"Ok", parameters>> ELSE <<valid>>

from_curve(overflow_checks, P_size_in_bits) ==
    LET field_size_bits == P_size_in_bits
        security_level  == field_size_bits \div 2
        fields == standard_fields(security_level, field_size_bits)
        parameters == [k \in DOMAIN fields |-> u16(fields[k])]
    IN  IF overflow_checks /\ ~fields_in_u16(security_level, fields) THEN <<"Panic">>
        ELSE LET valid == is_valid(overflow_checks, parameters)
             IN  IF valid = "Ok"
                 THEN <<"Ok", [parameters |-> parameters, security_level |-> security_level]>>
                 ELSE <<valid>>

\* 2 * security_level - 2 - c, not yet brought back into u16
search_bound(security_level, c) == u16(u16(2 * security_level) - 2) - c

bound_in_u16(security_level, c) ==
    /\ in_u16(2 * security_level)
    /\ in_u16(2 * security_level - 2)
    /\ in_u16(search_bound(security_level, c))

\* whether ((2 * security_level - 2 - c) - 2) / 2 panics
security_soundness_zk_panics(overflow_checks, security_level, c) ==
    overflow_checks /\ ~(/\ bound_in_u16(security_level, c)
                         /\ in_u16(search_bound(security_level, c) - 2))

security_soundness_zk(security_level, c) ==
    u16(u16(search_bound(security_level, c)) - 2) \div 2

\* whether the test of the inner loop panics: `&&` evaluates its right side
\* only when the left side holds
search_condition_panics(overflow_checks, security_level, c, i) ==
    \/ overflow_checks /\ ~bound_in_u16(security_level, c)
    \/ /\ i <= u16(search_bound(security_level, c))
       /\ \/ i = 0
          \/ overflow_checks /\ ~in_u16(i - c)

\* the test of the inner loop of from_curve_and_small_prime_size
search_condition(security_level, c, i) ==
    /\ i <= u16(search_bound(security_level, c))
    /\ u16(search_bound(security_level, c)) % i >= u16(i - c)

\* fault: the loop over the prime sizes is the outer one
RECURSIVE derived_prime_major(_, _, _, _, _, _)
derived_prime_major(overflow_checks, security_level, prime_bits_min, prime_bits_max, c, i) ==
    IF i > prime_bits_max THEN <<>>
    ELSE IF c >= security_level
    THEN derived_prime_major(overflow_checks, security_level, prime_bits_min, prime_bits_max,
                             0, i + 1)
    ELSE IF \/ security_soundness_zk_panics(overflow_checks, security_level, c)
            \/ search_condition_panics(overflow_checks, security_level, c, i)
    THEN <<[panics |-> TRUE]>>
    ELSE IF search_condition(security_level, c, i)
    THEN <<[panics |-> FALSE, prime_bits |-> i,
            security_soundness_zk |-> security_soundness_zk(security_level, c)]>>
    ELSE derived_prime_major(overflow_checks, security_level, prime_bits_min, prime_bits_max,
                             c + 1, i)

\* the closure `derived`: the loops `for c in 0..security_level` and
\* `for i in prime_bits_min..=prime_bits_max`, entered at (c, i)
RECURSIVE derived(_, _, _, _, _, _)
derived(overflow_checks, security_level, prime_bits_min, prime_bits_max, c, i) ==
    IF c >= security_level THEN <<>>
    ELSE IF security_soundness_zk_panics(overflow_checks, security_level, c)
    THEN <<[panics |-> TRUE]>>
    ELSE IF i > prime_bits_max
    THEN derived(overflow_checks, security_level, prime_bits_min, prime_bits_max,
                 c + 1, prime_bits_min)
    ELSE IF search_condition_panics(overflow_checks, security_level, c, i)
    THEN <<[panics |-> TRUE]>>
    ELSE IF search_condition(security_level, c, i)
    THEN <<[panics |-> FALSE, prime_bits |-> i,
            security_soundness_zk |-> security_soundness_zk(security_level, c)]>>
    ELSE derived(overflow_checks, security_level, prime_bits_min, prime_bits_max, c, i + 1)

from_curve_and_small_prime_size(overflow_checks, P_size_in_bits, prime_bits_min, prime_bits_max) ==
    LET field_size_bits == P_size_in_bits
        security_level  == field_size_bits \div 2
        found == derived(overflow_checks, security_level, prime_bits_min, prime_bits_max,
                         0, prime_bits_min)
    IN  IF found = <<>> THEN <<"InvalidParameters">>
        ELSE IF found[1].panics THEN <<"Panic">>
        ELSE LET parameters == [ security_level     |-> security_level,
                                 security_zk        |-> found[1].security_soundness_zk,
                                 security_soundness |-> found[1].security_soundness_zk,
                                 hash_to_prime_bits |-> found[1].prime_bits,
                                 field_size_bits    |-> field_size_bits ]
                 valid == is_valid(overflow_checks, parameters)
             IN  IF valid = "Ok"
                 THEN <<"Ok", [parameters |-> parameters, security_level |-> security_level]>>
                 ELSE <<valid>>

(***************************************************************************)
(* The group of unknown order G (trait ConvertibleUnknownOrderGroup): the  *)
(* multiplicative group modulo a small safe prime stands in for Rsa2048.   *)
(***************************************************************************)
rsa_modulus == 587

order_upper_bound == rsa_modulus

G_op(a, b) == (a * b) % rsa_modulus

\* the order of the group; an exponent and its residue modulo the order give
\* the same power
group_order == rsa_modulus - 1

\* exponentiation by a non-negative integer, by squaring: half is a^(n div 2)
RECURSIVE G_pow(_, _)
G_pow(a, n) ==
    IF a = 1 \/ n = 0 THEN 1
    ELSE CHOOSE p \in { IF n % 2 = 1 THEN G_op(G_op(half, half), a) ELSE G_op(half, half) :
                          half \in {G_pow(a, n \div 2)} } : TRUE

G_inv(a) == G_pow(a, rsa_modulus - 2)

\* negative exponents: inversion, then positive exponentiation; the exponent
\* is reduced modulo the order of the group first
G_exp(a, n) ==
    IF a = 1 \/ n = 0 THEN 1
    ELSE IF n < 0 THEN G_pow(G_inv(a), (0 - n) % group_order)
    ELSE G_pow(a, n % group_order)

(***************************************************************************)
(* The prime-order group P (trait CurvePointProjective) and its scalar     *)
(* field: the additive group of integers modulo the prime q.               *)
(***************************************************************************)
ScalarFieldModulus == 16381

RECURSIVE BitLength(_)
BitLength(n) == IF n = 0 THEN 0 ELSE 1 + BitLength(n \div 2)

size_in_bits == BitLength(ScalarFieldModulus)

\* width of the field's BigInt representation, a whole number of bytes
BigIntBits == 8 * ((size_in_bits + 7) \div 8)

P_mul(p, s) == (p * (s % ScalarFieldModulus)) % ScalarFieldModulus

P_add(p1, p2) == (p1 + p2) % ScalarFieldModulus

Field_sub(a, b) == (a - b) % ScalarFieldModulus

Field_mul(a, b) == (a * b) % ScalarFieldModulus

(***************************************************************************)
(* utils/mod.rs: conversions between integers, bytes, bits and BigInt.     *)
(***************************************************************************)
Abs(n) == IF n < 0 THEN 0 - n ELSE n

RECURSIVE NatToBytes(_)
NatToBytes(n) == IF n = 0 THEN <<>> ELSE Append(NatToBytes(n \div 256), n % 256)

\* significant digits of the magnitude, most significant byte first
integer_to_bytes(num) == NatToBytes(Abs(num))

ByteBits(b) == [i \in 1..8 |-> (b \div u_pow_u(2, 8 - i)) % 2 = 1]

RECURSIVE bytes_big_endian_to_bits_big_endian(_)
bytes_big_endian_to_bits_big_endian(bytes) ==
    IF bytes = <<>> THEN <<>>
    ELSE ByteBits(Head(bytes)) \o bytes_big_endian_to_bits_big_endian(Tail(bytes))

\* the number with the given big-endian bits, by halves
RECURSIVE BitsValue(_)
BitsValue(bits) ==
    IF Len(bits) = 0 THEN 0
    ELSE IF Len(bits) = 1 THEN (IF bits[1] THEN 1 ELSE 0)
    ELSE LET k == Len(bits) \div 2
         IN  BitsValue(SubSeq(bits, 1, k)) * u_pow_u(2, Len(bits) - k)
               + BitsValue(SubSeq(bits, k + 1, Len(bits)))

\* BigInt::from_bits: the number whose big-endian bits are given
BigInt_from_bits(bits) == BitsValue(bits)

\* BigInt::to_bits: big-endian bits over the full width of the BigInt
BigInt_to_bits(x) == [i \in 1..BigIntBits |-> (x \div u_pow_u(2, BigIntBits - i)) % 2 = 1]

BitsByte(bits, b) ==
    LET bit(i) == IF bits[8 * b + i + 1] THEN u_pow_u(2, 7 - i) ELSE 0
    IN  bit(0) + bit(1) + bit(2) + bit(3) + bit(4) + bit(5) + bit(6) + bit(7)

\* fault: the first bit of each group of eight becomes the lowest bit
bits_big_endian_to_bytes_big_endian_low_first(bits) ==
    [b \in 1..((Len(bits) + 7) \div 8) |->
        BitsByte([i \in 1..Len(bits) |-> bits[8 * ((i - 1) \div 8) + 8 - ((i - 1) % 8)]], b - 1)]

bits_big_endian_to_bytes_big_endian(bits) ==
    [b \in 1..((Len(bits) + 7) \div 8) |-> BitsByte(bits, b - 1)]

RECURSIVE BytesValue(_, _)
BytesValue(bytes, acc) ==
    IF bytes = <<>> THEN acc ELSE BytesValue(Tail(bytes), 256 * acc + Head(bytes))

integer_to_bigint(num) ==
    BigInt_from_bits(bytes_big_endian_to_bits_big_endian(integer_to_bytes(num)))

\* fault: the truncated remainder, negative for a negative argument
integer_mod_q_truncated(num) ==
    IF num < 0 THEN 0 - ((0 - num) % ScalarFieldModulus) ELSE num % ScalarFieldModulus

\* pow_mod(1, q): the representative in [0, q)
integer_mod_q(num) == num % ScalarFieldModulus

integer_to_bigint_mod_q(num) ==
    BigInt_from_bits(bytes_big_endian_to_bits_big_endian(integer_to_bytes(integer_mod_q(num))))

bigint_to_bytes(x) == bits_big_endian_to_bytes_big_endian(BigInt_to_bits(x))

bigint_to_integer(x) == BytesValue(bigint_to_bytes(x), 0)

(***************************************************************************)
(* Commitments (commitments/integer.rs, commitments/pedersen.rs).          *)
(***************************************************************************)
IntegerCommitment_new(g, h) == [g |-> g, h |-> h]

IntegerCommitment_commit(ic, value, randomness) ==
    G_op(G_exp(ic.g, value), G_exp(ic.h, randomness))

PedersenCommitment_commit(pc, value, randomness) ==
    LET v == integer_to_bigint(value)
        r == integer_to_bigint(randomness)
    IN  P_add(P_mul(pc.g, v), P_mul(pc.h, r))

\* fault: every opening is accepted
IntegerCommitment_open_unchecked(ic, commitment, value, randomness) == <<"Ok">>

IntegerCommitment_open(ic, commitment, value, randomness) ==
    LET expected == G_op(G_exp(ic.g, value), G_exp(ic.h, randomness))
    IN  IF expected = commitment THEN <<"Ok">> ELSE <<"WrongOpening">>

PedersenCommitment_open(pc, commitment, value, randomness) ==
    LET expected == P_add(P_mul(pc.g, integer_to_bigint(value)),
                          P_mul(pc.h, integer_to_bigint(randomness)))
    IN  IF expected = commitment THEN <<"Ok">> ELSE <<"WrongOpening">>

(***************************************************************************)
(* Randomness.  rng1 (rug MutRandState) is a tape of draws: entry k of the *)
(* tape selects the point k/TapeDen of the requested range, the last entry *)
(* value selecting its maximum.  rng2 draws are chosen from SampleScalars. *)
(***************************************************************************)
TapeLen == 2

TapeDen == 2

Tapes == [1..TapeLen -> 0..TapeDen]

random_below(rng, k, n) ==
    LET t == rng.tape[((rng.pos + k) % TapeLen) + 1]
    IN  IF t = TapeDen THEN n - 1 ELSE (n \div TapeDen) * t

\* the rng after `count` draws
rng_after(rng, count) == [rng EXCEPT !.pos = (rng.pos + count) % TapeLen]

\* k is the number of draws already made from rng in the current step
random_between(rng, k, min, max) == min + random_below(rng, k, max - min)

random_symmetric_range(rng, k, max) == (0 - max) + random_below(rng, k, 2 * max)

SampleScalars == {0, 1, ScalarFieldModulus - 1}

(***************************************************************************)
(* The Merlin transcript: an append-only log of framed messages; challenge *)
(* bytes are a digest of the whole log, and drawing them is logged too.    *)
(***************************************************************************)
Ascii(s) ==
    CASE s = "root"          -> <<114, 111, 111, 116>>
      [] s = "coprime"       -> <<99, 111, 112, 114, 105, 109, 101>>
      [] s = "modeq"         -> <<109, 111, 100, 101, 113>>
      [] s = "hash_to_prime" -> <<104, 97, 115, 104, 95, 116, 111, 95, 112, 114, 105, 109, 101>>
      [] s = "membership"    -> <<109, 101, 109, 98, 101, 114, 115, 104, 105, 112>>
      [] s = "nonmembership" -> <<110, 111, 110, 109, 101, 109, 98, 101, 114, 115, 104, 105, 112>>

Labels ==
    << "dom-sep", "c", "c_e", "c_w", "c_r", "alpha1", "alpha2", "alpha3", "alpha4",
       "alpha5", "alpha6", "alpha7", "c_a", "c_r_a", "c_b_cap", "c_rho_b_cap",
       "root", "coprime", "modeq", "hash_to_prime", "membership", "nonmembership" >>

LabelCode(l) == CHOOSE i \in 1..Len(Labels) : Labels[i] = l

DigestModulus == 65521

\* an order-sensitive digest of a byte string, by halves
RECURSIVE BytesDigest(_)
BytesDigest(bytes) ==
    IF Len(bytes) = 0 THEN 1
    ELSE IF Len(bytes) = 1 THEN bytes[1] + 2
    ELSE LET k == Len(bytes) \div 2
         IN  (BytesDigest(SubSeq(bytes, 1, k)) * 263
                + BytesDigest(SubSeq(bytes, k + 1, Len(bytes))) * 5 + Len(bytes))
             % DigestModulus

OpCode(op) == CASE op = "new" -> 1 [] op = "append" -> 2 [] op = "challenge" -> 3

\* the framing of one operation: its kind, its label, the length, the bytes
AbsorbEntry(h, e) ==
    (h * 131 + BytesDigest(<<OpCode(e.op), LabelCode(e.label), Len(e.bytes)>> \o e.bytes))
        % DigestModulus

\* a transcript is the log of its operations and the running hash state
Absorb(t, e) == [log |-> Append(t.log, e), state |-> AbsorbEntry(t.state, e)]

Transcript_new(label) ==
    Absorb([log |-> <<>>, state |-> 7], [op |-> "new", label |-> label, bytes |-> <<>>])

append_message(t, label, bytes) ==
    Absorb(t, [op |-> "append", label |-> label, bytes |-> bytes])

\* challenge_bytes(label, buf): fills buf, and the draw itself is absorbed
challenge_bytes(t, label, n) ==
    LET t2 == Absorb(t, [op |-> "challenge", label |-> label, bytes |-> <<n>>])
        h  == t2.state
    IN  [ transcript |-> t2,
          buf        |-> [i \in 1..n |-> ((h * (2 * i - 1) + (h \div 256) + i) % 256)] ]

elem_to_bytes(point) == integer_to_bytes(point)

to_affine_bytes(point) == bigint_to_bytes(point)

append_integer_scalar(t, label, scalar) == append_message(t, label, integer_to_bytes(scalar))

append_integer_point(t, label, point) == append_message(t, label, elem_to_bytes(point))

append_curve_scalar(t, label, scalar) == append_message(t, label, bigint_to_bytes(scalar))

append_curve_point(t, label, point) == append_message(t, label, to_affine_bytes(point))

\* fault: the bytes are read least significant first
challenge_scalar_lsf(t, label, length_in_bits) ==
    LET r == challenge_bytes(t, label, length_in_bits \div 8)
        n == Len(r.buf)
    IN  [transcript |-> r.transcript, value |-> BytesValue([i \in 1..n |-> r.buf[n + 1 - i]], 0)]

challenge_scalar(t, label, length_in_bits) ==
    LET r == challenge_bytes(t, label, length_in_bits \div 8)
    IN  [transcript |-> r.transcript, value |-> BytesValue(r.buf, 0)]

root_domain_sep(t) == append_message(t, "dom-sep", Ascii("root"))

coprime_domain_sep(t) == append_message(t, "dom-sep", Ascii("coprime"))

modeq_domain_sep(t) == append_message(t, "dom-sep", Ascii("modeq"))

hash_to_prime_domain_sep(t) == append_message(t, "dom-sep", Ascii("hash_to_prime"))

membership_domain_sep(t) == append_message(t, "dom-sep", Ascii("membership"))

nonmembership_domain_sep(t) == append_message(t, "dom-sep", Ascii("nonmembership"))

\* Option<T>
None == <<>>

Some(x) == <<x>>

is_some(o) == o # <<>>

unwrap(o) == o[1]

(***************************************************************************)
(* Root (protocols/root/mod.rs).  `rng` is the generator at the start of   *)
(* the step; the k-th draw of the step is draw number k of `rng`.          *)
(***************************************************************************)
\* fault: r_e is drawn from a range four times as wide
r_e_range_wide(crs) ==
    u_pow_u(2, crs.parameters.security_zk + crs.parameters.security_soundness
                 + crs.parameters.hash_to_prime_bits + 2)

r_e_range(crs) ==
    u_pow_u(2, crs.parameters.security_zk + crs.parameters.security_soundness
                 + crs.parameters.hash_to_prime_bits)

r_r_range(crs) ==
    (order_upper_bound \div 2)
        * u_pow_u(2, crs.parameters.security_zk + crs.parameters.security_soundness)

r_beta_delta_range(crs) ==
    (order_upper_bound \div 2)
        * u_pow_u(2, crs.parameters.security_zk + crs.parameters.security_soundness
                       + crs.parameters.hash_to_prime_bits)

Root_prove_message1(crs, witness, rng) ==
    LET r_2 == random_symmetric_range(rng, 0, order_upper_bound \div 2)
        r_3 == random_symmetric_range(rng, 1, order_upper_bound \div 2)
        c_w == G_op(witness.w, G_exp(crs.integer_commitment_parameters.h, r_2))
        c_r == IntegerCommitment_commit(crs.integer_commitment_parameters, r_2, r_3)
    IN  [r_2 |-> r_2, r_3 |-> r_3, message1 |-> [c_w |-> c_w, c_r |-> c_r]]

Root_prove_message2(crs, message1, rng) ==
    LET icp     == crs.integer_commitment_parameters
        r_e     == random_symmetric_range(rng, 0, r_e_range(crs))
        r_r     == random_symmetric_range(rng, 1, r_r_range(crs))
        r_r_2   == random_symmetric_range(rng, 2, r_r_range(crs))
        r_r_3   == random_symmetric_range(rng, 3, r_r_range(crs))
        r_beta  == random_symmetric_range(rng, 4, r_beta_delta_range(crs))
        r_delta == random_symmetric_range(rng, 5, r_beta_delta_range(crs))
        alpha1  == IntegerCommitment_commit(icp, r_e, r_r)
        alpha2  == IntegerCommitment_commit(icp, r_r_2, r_r_3)
        integer_commitment_alpha3 == IntegerCommitment_new(message1.c_w, G_inv(icp.h))
        alpha3  == IntegerCommitment_commit(integer_commitment_alpha3, r_e, r_beta)
        integer_commitment_alpha4 == IntegerCommitment_new(G_inv(icp.h), G_inv(icp.g))
        alpha4  == G_op(G_exp(message1.c_r, r_e),
                        IntegerCommitment_commit(integer_commitment_alpha4, r_delta, r_beta))
    IN  [ r_e |-> r_e, r_r |-> r_r, r_r_2 |-> r_r_2, r_r_3 |-> r_r_3,
          r_beta |-> r_beta, r_delta |-> r_delta,
          message2 |-> [alpha1 |-> alpha1, alpha2 |-> alpha2,
                        alpha3 |-> alpha3, alpha4 |-> alpha4] ]

\* fault: s_delta computed with the sign of the product flipped
Root_prove_message3_flipped(witness, l, c) ==
    [ s_e     |-> l.r_e - c * witness.e,
      s_r     |-> l.r_r - c * witness.r,
      s_r_2   |-> l.r_r_2 - c * l.r_2,
      s_r_3   |-> l.r_r_3 - c * l.r_3,
      s_beta  |-> l.r_beta - (c * witness.e) * l.r_2,
      s_delta |-> l.r_delta + (c * witness.e) * l.r_3 ]

\* l holds the blindings of the two earlier steps
Root_prove_message3(witness, l, c) ==
    [ s_e     |-> l.r_e - c * witness.e,
      s_r     |-> l.r_r - c * witness.r,
      s_r_2   |-> l.r_r_2 - c * l.r_2,
      s_r_3   |-> l.r_r_3 - c * l.r_3,
      s_beta  |-> l.r_beta - (c * witness.e) * l.r_2,
      s_delta |-> l.r_delta - (c * witness.e) * l.r_3 ]

s_e_expected_right(crs) ==
    u_pow_u(2, crs.parameters.security_zk + crs.parameters.security_soundness
                 + crs.parameters.hash_to_prime_bits + 1)

\* fault: the range of s_e is not checked
is_s_e_in_range_skipped(crs, s_e) == TRUE

is_s_e_in_range(crs, s_e) ==
    s_e >= 0 - s_e_expected_right(crs) /\ s_e <= s_e_expected_right(crs)

Root_expected(crs, statement, message1, c, message3) ==
    LET icp == crs.integer_commitment_parameters
        integer_commitment_alpha3 == IntegerCommitment_new(message1.c_w, G_inv(icp.h))
        integer_commitment_alpha4 == IntegerCommitment_new(G_inv(icp.h), G_inv(icp.g))
    IN  [ alpha1 |-> G_op(G_exp(statement.c_e, c),
                          IntegerCommitment_commit(icp, message3.s_e, message3.s_r)),
          alpha2 |-> G_op(G_exp(message1.c_r, c),
                          IntegerCommitment_commit(icp, message3.s_r_2, message3.s_r_3)),
          alpha3 |-> G_op(G_exp(statement.acc, c),
                          IntegerCommitment_commit(integer_commitment_alpha3,
                                                   message3.s_e, message3.s_beta)),
          alpha4 |-> G_op(G_exp(message1.c_r, message3.s_e),
                          IntegerCommitment_commit(integer_commitment_alpha4,
                                                   message3.s_delta, message3.s_beta)) ]

\* fault: verify does not compare alpha3
Root_verify_check_without_alpha3(crs, statement, message1, message2, c, message3) ==
    LET expected == Root_expected(crs, statement, message1, c, message3)
    IN  /\ expected.alpha1 = message2.alpha1
        /\ expected.alpha2 = message2.alpha2
        /\ expected.alpha4 = message2.alpha4
        /\ is_s_e_in_range(crs, message3.s_e)

Root_verify_check(crs, statement, message1, message2, c, message3) ==
    LET expected == Root_expected(crs, statement, message1, c, message3)
    IN  /\ expected.alpha1 = message2.alpha1
        /\ expected.alpha2 = message2.alpha2
        /\ expected.alpha3 = message2.alpha3
        /\ expected.alpha4 = message2.alpha4
        /\ is_s_e_in_range(crs, message3.s_e)

(***************************************************************************)
(* Coprime (protocols/coprime/mod.rs).                                     *)
(***************************************************************************)
\* from_crs for a group G whose G::rsa_modulus() returned `modulus`: Some(n),
\* or None for the Err of a group without an RSA modulus
Coprime_from_crs_in(modulus, crs) ==
    IF ~is_some(modulus) THEN "InvalidParameters"
    ELSE IF \/ crs.parameters.security_soundness + 1 >= crs.parameters.hash_to_prime_bits
            \/ crs.parameters.security_soundness >= unwrap(modulus) \div 2
    THEN "InvalidParameters"
    ELSE "Ok"

\* from_crs over the group of the instance
Coprime_from_crs(crs) == Coprime_from_crs_in(Some(rsa_modulus), crs)

Coprime_prove_message1(crs, statement, witness, rng) ==
    LET icp             == crs.integer_commitment_parameters
        r_a             == random_symmetric_range(rng, 0, order_upper_bound \div 2)
        r_a_prime       == random_symmetric_range(rng, 1, order_upper_bound \div 2)
        rho_b_cap       == random_symmetric_range(rng, 2, order_upper_bound \div 2)
        rho_b_cap_prime == random_symmetric_range(rng, 3, order_upper_bound \div 2)
        c_a             == G_op(witness.d, G_exp(icp.h, r_a))
        c_r_a           == IntegerCommitment_commit(icp, r_a, r_a_prime)
        integer_commitment_c_b_cap == IntegerCommitment_new(statement.acc, icp.h)
        c_b_cap         == IntegerCommitment_commit(integer_commitment_c_b_cap,
                                                    witness.b, rho_b_cap)
        c_rho_b_cap     == IntegerCommitment_commit(icp, rho_b_cap, rho_b_cap_prime)
    IN  [ r_a |-> r_a, r_a_prime |-> r_a_prime,
          rho_b_cap |-> rho_b_cap, rho_b_cap_prime |-> rho_b_cap_prime,
          message1 |-> [c_a |-> c_a, c_r_a |-> c_r_a,
                        c_b_cap |-> c_b_cap, c_rho_b_cap |-> c_rho_b_cap] ]

Coprime_prove_message2(crs, statement, message1, rng) ==
    LET icp               == crs.integer_commitment_parameters
        r_b               == random_symmetric_range(rng, 0, r_e_range(crs))
        r_e               == random_symmetric_range(rng, 1, r_e_range(crs))
        r_rho_b_cap       == random_symmetric_range(rng, 2, r_r_range(crs))
        r_r               == random_symmetric_range(rng, 3, r_r_range(crs))
        r_r_a             == random_symmetric_range(rng, 4, r_r_range(crs))
        r_r_a_prime       == random_symmetric_range(rng, 5, r_r_range(crs))
        r_rho_b_cap_prime == random_symmetric_range(rng, 6, r_r_range(crs))
        r_beta            == random_symmetric_range(rng, 7, r_beta_delta_range(crs))
        r_delta           == random_symmetric_range(rng, 8, r_beta_delta_range(crs))
        integer_commitment_c_b_cap == IntegerCommitment_new(statement.acc, icp.h)
        integer_commitment_alpha5  == IntegerCommitment_new(message1.c_a, icp.h)
    IN  [ r_b |-> r_b, r_e |-> r_e, r_rho_b_cap |-> r_rho_b_cap, r_r |-> r_r,
          r_r_a |-> r_r_a, r_r_a_prime |-> r_r_a_prime,
          r_rho_b_cap_prime |-> r_rho_b_cap_prime,
          r_beta |-> r_beta, r_delta |-> r_delta,
          message2 |->
            [ alpha2 |-> IntegerCommitment_commit(integer_commitment_c_b_cap, r_b, r_rho_b_cap),
              alpha3 |-> IntegerCommitment_commit(icp, r_e, r_r),
              alpha4 |-> IntegerCommitment_commit(icp, r_r_a, r_r_a_prime),
              alpha5 |-> IntegerCommitment_commit(integer_commitment_alpha5, r_e, r_beta),
              alpha6 |-> G_op(G_exp(message1.c_r_a, r_e),
                              IntegerCommitment_commit(icp, r_beta, r_delta)),
              alpha7 |-> IntegerCommitment_commit(icp, r_rho_b_cap, r_rho_b_cap_prime) ] ]

\* fault: s_beta computed as in Root, by subtraction
Coprime_prove_message3_subtracting(witness, l, c) ==
    [ s_b               |-> l.r_b - c * witness.b,
      s_e               |-> l.r_e - c * witness.e,
      s_rho_b_cap       |-> l.r_rho_b_cap - c * l.rho_b_cap,
      s_r               |-> l.r_r - c * witness.r,
      s_r_a             |-> l.r_r_a - c * l.r_a,
      s_r_a_prime       |-> l.r_r_a_prime - c * l.r_a_prime,
      s_rho_b_cap_prime |-> l.r_rho_b_cap_prime - c * l.rho_b_cap_prime,
      s_beta            |-> l.r_beta - c * (witness.e * l.r_a + l.rho_b_cap),
      s_delta           |-> l.r_delta + c * (witness.e * l.r_a_prime + l.rho_b_cap_prime) ]

Coprime_prove_message3(witness, l, c) ==
    [ s_b               |-> l.r_b - c * witness.b,
      s_e               |-> l.r_e - c * witness.e,
      s_rho_b_cap       |-> l.r_rho_b_cap - c * l.rho_b_cap,
      s_r               |-> l.r_r - c * witness.r,
      s_r_a             |-> l.r_r_a - c * l.r_a,
      s_r_a_prime       |-> l.r_r_a_prime - c * l.r_a_prime,
      s_rho_b_cap_prime |-> l.r_rho_b_cap_prime - c * l.rho_b_cap_prime,
      s_beta            |-> l.r_beta + c * (witness.e * l.r_a + l.rho_b_cap),
      s_delta           |-> l.r_delta + c * (witness.e * l.r_a_prime + l.rho_b_cap_prime) ]

Coprime_expected(crs, statement, message1, c, message3) ==
    LET icp == crs.integer_commitment_parameters
        integer_commitment_alpha2 == IntegerCommitment_new(statement.acc, icp.h)
        integer_commitment_alpha5 ==
            IntegerCommitment_new(message1.c_a, G_inv(message1.c_b_cap))
        integer_commitment_alpha6 ==
            IntegerCommitment_new(message1.c_r_a, G_inv(message1.c_rho_b_cap))
    IN  [ alpha2 |-> G_op(G_exp(message1.c_b_cap, c),
                          IntegerCommitment_commit(integer_commitment_alpha2,
                                                   message3.s_b, message3.s_rho_b_cap)),
          alpha3 |-> G_op(G_exp(statement.c_e, c),
                          IntegerCommitment_commit(icp, message3.s_e, message3.s_r)),
          alpha4 |-> G_op(G_exp(message1.c_r_a, c),
                          IntegerCommitment_commit(icp, message3.s_r_a, message3.s_r_a_prime)),
          alpha5 |-> G_op(IntegerCommitment_commit(integer_commitment_alpha5, message3.s_e, c),
                          IntegerCommitment_commit(icp, c, message3.s_beta)),
          alpha6 |-> G_op(IntegerCommitment_commit(integer_commitment_alpha6, message3.s_e, c),
                          IntegerCommitment_commit(icp, message3.s_beta, message3.s_delta)),
          alpha7 |-> G_op(G_exp(message1.c_rho_b_cap, c),
                          IntegerCommitment_commit(icp, message3.s_rho_b_cap,
                                                   message3.s_rho_b_cap_prime)) ]

\* fault: alpha5, the equation that ties c_a and c_b_cap to g, is not compared
Coprime_verify_check_without_alpha5(crs, statement, message1, message2, c, message3) ==
    LET expected == Coprime_expected(crs, statement, message1, c, message3)
    IN  /\ expected.alpha2 = message2.alpha2
        /\ expected.alpha3 = message2.alpha3
        /\ expected.alpha4 = message2.alpha4
        /\ expected.alpha6 = message2.alpha6
        /\ expected.alpha7 = message2.alpha7
        /\ is_s_e_in_range(crs, message3.s_e)

Coprime_verify_check(crs, statement, message1, message2, c, message3) ==
    LET expected == Coprime_expected(crs, statement, message1, c, message3)
    IN  /\ expected.alpha2 = message2.alpha2
        /\ expected.alpha3 = message2.alpha3
        /\ expected.alpha4 = message2.alpha4
        /\ expected.alpha5 = message2.alpha5
        /\ expected.alpha6 = message2.alpha6
        /\ expected.alpha7 = message2.alpha7
        /\ is_s_e_in_range(crs, message3.s_e)

(***************************************************************************)
(* ModEq (protocols/modeq/mod.rs).  r_r_q_field is the draw from rng2.     *)
(***************************************************************************)
ModEq_prove_message1(crs, rng, r_r_q_field) ==
    LET r_e    == random_symmetric_range(rng, 0, r_e_range(crs))
        r_r    == random_symmetric_range(rng, 1, r_r_range(crs))
        r_r_q  == bigint_to_integer(r_r_q_field)
        alpha1 == IntegerCommitment_commit(crs.integer_commitment_parameters, r_e, r_r)
        alpha2 == PedersenCommitment_commit(crs.pedersen_commitment_parameters,
                                            integer_mod_q(r_e), r_r_q)
    IN  [ r_e |-> r_e, r_r |-> r_r, r_r_q_field |-> r_r_q_field,
          message1 |-> [alpha1 |-> alpha1, alpha2 |-> alpha2] ]

ModEq_prove_message2(witness, l, c) ==
    LET r_q   == integer_to_bigint_mod_q(witness.r_q)
        c_big == integer_to_bigint_mod_q(c)
    IN  [ s_e   |-> l.r_e - c * witness.e,
          s_r   |-> l.r_r - c * witness.r,
          s_r_q |-> Field_sub(l.r_r_q_field, Field_mul(r_q, c_big)) ]

ModEq_expected(crs, statement, c, message2) ==
    LET commitment2       == IntegerCommitment_commit(crs.integer_commitment_parameters,
                                                      message2.s_e, message2.s_r)
        commitment2_extra == G_exp(statement.c_e, c)
        s_e_mod_q         == integer_mod_q(message2.s_e)
        s_r_q_int         == bigint_to_integer(message2.s_r_q)
        commitment1       == PedersenCommitment_commit(crs.pedersen_commitment_parameters,
                                                       s_e_mod_q, s_r_q_int)
        c_big             == integer_to_bigint_mod_q(c)
        commitment1_extra == P_mul(statement.c_e_q, c_big)
    IN  [ alpha1 |-> G_op(commitment2, commitment2_extra),
          alpha2 |-> P_add(commitment1, commitment1_extra) ]

\* Protocol::from_crs: the CRS is cloned into the protocol
ModEq_from_crs(crs) == <<"Ok", [crs |-> crs]>>

\* fault: only the integer commitment side is compared
ModEq_verify_check_integer_only(crs, statement, message1, c, message2) ==
    LET expected == ModEq_expected(crs, statement, c, message2)
    IN  expected.alpha1 = message1.alpha1

ModEq_verify_check(crs, statement, message1, c, message2) ==
    LET expected == ModEq_expected(crs, statement, c, message2)
    IN  expected.alpha1 = message1.alpha1 /\ expected.alpha2 = message1.alpha2

(***************************************************************************)
(* Hash-to-prime, range-only variant (hash_to_prime/snark_range.rs).  The  *)
(* LegoGroth16 proof is a record: whether the circuit was satisfied by the *)
(* assignment it was created from, and the link commitment link_d.         *)
(***************************************************************************)
HashToPrime_hash_to_prime(e) == [value |-> e, index |-> 0]

\* HashToPrimeCircuit: the bits above required_bit_size are zero and the
\* highest required bit is one
HashToPrimeCircuit_satisfied(required_bit_size, value) ==
    /\ value < u_pow_u(2, required_bit_size)
    /\ value >= u_pow_u(2, required_bit_size - 1)

\* fault: the link commitment is formed without the constant base
HashToPrime_prove_unlinked(crs, witness) ==
    LET value  == integer_to_bigint_mod_q(witness.e)
        link_v == integer_to_bigint_mod_q(witness.r_q)
        pcp    == crs.pedersen_commitment_parameters
    IN  [ satisfied |-> HashToPrimeCircuit_satisfied(crs.parameters.hash_to_prime_bits, value),
          link_d    |-> P_add(P_mul(pcp.g, value), P_mul(pcp.h, link_v)) ]

HashToPrime_prove(crs, witness) ==
    LET value  == integer_to_bigint_mod_q(witness.e)
        link_v == integer_to_bigint_mod_q(witness.r_q)
        pcp    == crs.pedersen_commitment_parameters
    IN  [ satisfied |-> HashToPrimeCircuit_satisfied(crs.parameters.hash_to_prime_bits, value),
          link_d    |-> P_add(crs.hash_to_prime_parameters.link_base_one,
                              P_add(P_mul(pcp.g, value), P_mul(pcp.h, link_v))) ]

HashToPrime_verify_check(crs, statement, proof) ==
    LET proof_link_d_without_one ==
            (proof.link_d - crs.hash_to_prime_parameters.link_base_one) % ScalarFieldModulus
    IN  /\ proof.satisfied
        /\ statement.c_e_q = proof_link_d_without_one

(***************************************************************************)
(* Hash-to-prime, Blake2s variant (hash_to_prime/snark_hash.rs).  The      *)
(* digest is a short one; the limbs of the scaled BigInt are bytes.        *)
(***************************************************************************)
MESSAGE_SIZE == 12

bigint_bits == BigIntBits

\* utils::log2: the least k with 2^k >= n
log2(n) == CHOOSE k \in 0..30 : u_pow_u(2, k) >= n /\ (k = 0 \/ u_pow_u(2, k - 1) < n)

index_bit_length(security_level) == log2(security_level * MESSAGE_SIZE)

Reverse(s) == [i \in 1..Len(s) |-> s[Len(s) + 1 - i]]

Falses(n) == [i \in 1..n |-> FALSE]

\* Blake2s::new_keyed(&[], 32), process, fixed_result
Blake2s(bytes) ==
    LET d == BytesDigest(bytes) IN <<d \div 256, d % 256>>

\* is_probably_prime(reps) # IsPrime::No; exact on numbers of this size
is_probably_prime(n) ==
    \E m \in {n} : m >= 2 /\ \A d \in 2..m : d * d > m \/ m % d # 0

\* bit i of the index, least significant first
SnarkHash_index_bits(index, length) ==
    [i \in 1..length |-> (index \div u_pow_u(2, i - 1)) % 2 = 1]

SnarkHash_padded(bits_to_hash) ==
    IF Len(bits_to_hash) % 8 # 0
    THEN Falses(8 - (Len(bits_to_hash) % 8)) \o bits_to_hash
    ELSE bits_to_hash

SnarkHash_bytes_to_hash(index_bits, value_bits) ==
    Reverse(bits_big_endian_to_bytes_big_endian(Reverse(SnarkHash_padded(index_bits \o value_bits))))

\* a leading one, then the first hash_to_prime_bits - 1 of the reversed bits
SnarkHash_hash_bits(hash, hash_to_prime_bits) ==
    <<TRUE>> \o SubSeq(Reverse(bytes_big_endian_to_bits_big_endian(Reverse(hash))),
                       1, hash_to_prime_bits - 1)

\* fault: the leading bit is taken from the hash as well
SnarkHash_candidate_hashed_top(crs, value_bits, index) ==
    bigint_to_integer(BigInt_from_bits(
        Tail(SnarkHash_hash_bits(
            Blake2s(SnarkHash_bytes_to_hash(
                SnarkHash_index_bits(index, index_bit_length(crs.parameters.security_level)),
                value_bits)),
            crs.parameters.hash_to_prime_bits + 1))))

\* the integer tried at an index
SnarkHash_candidate(crs, value_bits, index) ==
    bigint_to_integer(BigInt_from_bits(
        SnarkHash_hash_bits(
            Blake2s(SnarkHash_bytes_to_hash(
                SnarkHash_index_bits(index, index_bit_length(crs.parameters.security_level)),
                value_bits)),
            crs.parameters.hash_to_prime_bits)))

\* fault: the search starts at the last index and goes down
RECURSIVE SnarkHash_search_descending(_, _, _, _)
SnarkHash_search_descending(crs, value_bits, index, trials) ==
    LET last    == u_pow_u(2, index_bit_length(crs.parameters.security_level)) - 1
        integer == SnarkHash_candidate(crs, value_bits, last - index)
    IN  IF index > last
        THEN [result |-> <<"CouldNotFindIndex">>, trials |-> trials]
        ELSE IF is_probably_prime(integer)
        THEN [result |-> <<"Ok", integer, last - index>>, trials |-> Append(trials, last - index)]
        ELSE SnarkHash_search_descending(crs, value_bits, index + 1,
                                         Append(trials, last - index))

\* for index in 0..1 << index_bit_length; trials lists the indices tried
RECURSIVE SnarkHash_search(_, _, _, _)
SnarkHash_search(crs, value_bits, index, trials) ==
    IF index >= u_pow_u(2, index_bit_length(crs.parameters.security_level))
    THEN [result |-> <<"CouldNotFindIndex">>, trials |-> trials]
    ELSE LET integer == SnarkHash_candidate(crs, value_bits, index)
         IN  IF is_probably_prime(integer)
             THEN [result |-> <<"Ok", integer, index>>, trials |-> Append(trials, index)]
             ELSE SnarkHash_search(crs, value_bits, index + 1, Append(trials, index))

SnarkHash_hash_to_prime(crs, e) ==
    LET value_raw_bits == BigInt_to_bits(integer_to_bigint_mod_q(e))
        bits_to_skip   == bigint_bits - MESSAGE_SIZE
    IN  IF \E b \in 1..bits_to_skip : value_raw_bits[b]
        THEN [result |-> <<"ValueTooBig">>, trials |-> <<>>]
        ELSE SnarkHash_search(crs, SubSeq(value_raw_bits, bits_to_skip + 1, bigint_bits),
                              0, <<>>)

(***************************************************************************)
(* Transcript-backed channels.  A channel operation takes the transcript   *)
(* and the channel's stored messages and returns both after the call.      *)
(***************************************************************************)
Root_channel_new == [message1 |-> None, message2 |-> None, message3 |-> None]

Coprime_channel_new == [message1 |-> None, message2 |-> None, message3 |-> None]

ModEq_channel_new == [message1 |-> None, message2 |-> None]

HashToPrime_channel_new == [proof |-> None]

\* transcript/root.rs
Root_send_message1(t, ch, message) ==
    LET t1 == root_domain_sep(t)
        t2 == append_integer_point(t1, "c_w", message.c_w)
        t3 == append_integer_point(t2, "c_r", message.c_r)
    IN  [transcript |-> t3, channel |-> [ch EXCEPT !.message1 = Some(message)]]

Root_send_message2(t, ch, message) ==
    LET t1 == root_domain_sep(t)
        t2 == append_integer_point(t1, "alpha1", message.alpha1)
        t3 == append_integer_point(t2, "alpha2", message.alpha2)
        t4 == append_integer_point(t3, "alpha3", message.alpha3)
        t5 == append_integer_point(t4, "alpha4", message.alpha4)
    IN  [transcript |-> t5, channel |-> [ch EXCEPT !.message2 = Some(message)]]

\* fault: the response is appended to the transcript as well
Root_send_message3_absorbed(t, ch, message) ==
    [transcript |-> append_integer_scalar(root_domain_sep(t), "c", message.s_e),
     channel |-> [ch EXCEPT !.message3 = Some(message)]]

Root_send_message3(t, ch, message) ==
    [transcript |-> t, channel |-> [ch EXCEPT !.message3 = Some(message)]]

\* fault: the challenge is drawn without the domain separator
Root_receive_challenge_unseparated(t, crs) ==
    challenge_scalar(t, "c", crs.parameters.security_soundness)

Root_receive_challenge(t, crs) ==
    challenge_scalar(root_domain_sep(t), "c", crs.parameters.security_soundness)

\* fault: the proof is assembled as soon as the two commitment messages are in
Root_proof_eager(ch) ==
    IF is_some(ch.message1) /\ is_some(ch.message2)
    THEN Some([ message1 |-> unwrap(ch.message1),
                message2 |-> unwrap(ch.message2),
                message3 |-> ch.message3 ])
    ELSE None

Root_proof(ch) ==
    IF is_some(ch.message1) /\ is_some(ch.message2) /\ is_some(ch.message3)
    THEN Some([ message1 |-> unwrap(ch.message1),
                message2 |-> unwrap(ch.message2),
                message3 |-> unwrap(ch.message3) ])
    ELSE None

Root_receive_message1(t, proof) ==
    LET t1 == root_domain_sep(t)
        t2 == append_integer_point(t1, "c_w", proof.message1.c_w)
        t3 == append_integer_point(t2, "c_r", proof.message1.c_r)
    IN  [transcript |-> t3, message |-> proof.message1]

\* fault: alpha3 and alpha4 replayed in the other order
Root_receive_message2_reordered(t, proof) ==
    LET t1 == root_domain_sep(t)
        t2 == append_integer_point(t1, "alpha1", proof.message2.alpha1)
        t3 == append_integer_point(t2, "alpha2", proof.message2.alpha2)
        t4 == append_integer_point(t3, "alpha4", proof.message2.alpha4)
        t5 == append_integer_point(t4, "alpha3", proof.message2.alpha3)
    IN  [transcript |-> t5, message |-> proof.message2]

Root_receive_message2(t, proof) ==
    LET t1 == root_domain_sep(t)
        t2 == append_integer_point(t1, "alpha1", proof.message2.alpha1)
        t3 == append_integer_point(t2, "alpha2", proof.message2.alpha2)
        t4 == append_integer_point(t3, "alpha3", proof.message2.alpha3)
        t5 == append_integer_point(t4, "alpha4", proof.message2.alpha4)
    IN  [transcript |-> t5, message |-> proof.message2]

Root_receive_message3(t, proof) == [transcript |-> t, message |-> proof.message3]

Root_generate_and_send_challenge(t, crs) ==
    challenge_scalar(root_domain_sep(t), "c", crs.parameters.security_soundness)

\* protocols/coprime/transcript.rs
\* fault: c_r_a is appended under the tag of c_a
Coprime_send_message1_shared_tag(t, ch, message) ==
    LET t1 == coprime_domain_sep(t)
        t2 == append_integer_point(t1, "c_a", message.c_a)
        t3 == append_integer_point(t2, "c_a", message.c_r_a)
        t4 == append_integer_point(t3, "c_b_cap", message.c_b_cap)
        t5 == append_integer_point(t4, "c_rho_b_cap", message.c_rho_b_cap)
    IN  [transcript |-> t5, channel |-> [ch EXCEPT !.message1 = Some(message)]]

Coprime_send_message1(t, ch, message) ==
    LET t1 == coprime_domain_sep(t)
        t2 == append_integer_point(t1, "c_a", message.c_a)
        t3 == append_integer_point(t2, "c_r_a", message.c_r_a)
        t4 == append_integer_point(t3, "c_b_cap", message.c_b_cap)
        t5 == append_integer_point(t4, "c_rho_b_cap", message.c_rho_b_cap)
    IN  [transcript |-> t5, channel |-> [ch EXCEPT !.message1 = Some(message)]]

Coprime_send_message2(t, ch, message) ==
    LET t1 == coprime_domain_sep(t)
        t2 == append_integer_point(t1, "alpha2", message.alpha2)
        t3 == append_integer_point(t2, "alpha3", message.alpha3)
        t4 == append_integer_point(t3, "alpha4", message.alpha4)
        t5 == append_integer_point(t4, "alpha5", message.alpha5)
        t6 == append_integer_point(t5, "alpha6", message.alpha6)
        t7 == append_integer_point(t6, "alpha7", message.alpha7)
    IN  [transcript |-> t7, channel |-> [ch EXCEPT !.message2 = Some(message)]]

Coprime_send_message3(t, ch, message) ==
    [transcript |-> t, channel |-> [ch EXCEPT !.message3 = Some(message)]]

Coprime_receive_challenge(t, crs) ==
    challenge_scalar(coprime_domain_sep(t), "c", crs.parameters.security_soundness)

Coprime_proof(ch) ==
    IF is_some(ch.message1) /\ is_some(ch.message2) /\ is_some(ch.message3)
    THEN Some([ message1 |-> unwrap(ch.message1),
                message2 |-> unwrap(ch.message2),
                message3 |-> unwrap(ch.message3) ])
    ELSE None

Coprime_receive_message1(t, proof) ==
    LET t1 == coprime_domain_sep(t)
        t2 == append_integer_point(t1, "c_a", proof.message1.c_a)
        t3 == append_integer_point(t2, "c_r_a", proof.message1.c_r_a)
        t4 == append_integer_point(t3, "c_b_cap", proof.message1.c_b_cap)
        t5 == append_integer_point(t4, "c_rho_b_cap", proof.message1.c_rho_b_cap)
    IN  [transcript |-> t5, message |-> proof.message1]

Coprime_receive_message2(t, proof) ==
    LET t1 == coprime_domain_sep(t)
        t2 == append_integer_point(t1, "alpha2", proof.message2.alpha2)
        t3 == append_integer_point(t2, "alpha3", proof.message2.alpha3)
        t4 == append_integer_point(t3, "alpha4", proof.message2.alpha4)
        t5 == append_integer_point(t4, "alpha5", proof.message2.alpha5)
        t6 == append_integer_point(t5, "alpha6", proof.message2.alpha6)
        t7 == append_integer_point(t6, "alpha7", proof.message2.alpha7)
    IN  [transcript |-> t7, message |-> proof.message2]

Coprime_receive_message3(t, proof) == [transcript |-> t, message |-> proof.message3]

Coprime_generate_and_send_challenge(t, crs) ==
    challenge_scalar(coprime_domain_sep(t), "c", crs.parameters.security_soundness)

\* transcript/modeq.rs
ModEq_send_message1(t, ch, message) ==
    LET t1 == modeq_domain_sep(t)
        t2 == append_integer_point(t1, "alpha1", message.alpha1)
        t3 == append_curve_point(t2, "alpha2", message.alpha2)
    IN  [transcript |-> t3, channel |-> [ch EXCEPT !.message1 = Some(message)]]

ModEq_send_message2(t, ch, message) ==
    [transcript |-> t, channel |-> [ch EXCEPT !.message2 = Some(message)]]

ModEq_receive_challenge(t, crs) ==
    challenge_scalar(modeq_domain_sep(t), "c", crs.parameters.security_soundness)

ModEq_proof(ch) ==
    IF is_some(ch.message1) /\ is_some(ch.message2)
    THEN Some([message1 |-> unwrap(ch.message1), message2 |-> unwrap(ch.message2)])
    ELSE None

ModEq_receive_message1(t, proof) ==
    LET t1 == modeq_domain_sep(t)
        t2 == append_integer_point(t1, "alpha1", proof.message1.alpha1)
        t3 == append_curve_point(t2, "alpha2", proof.message1.alpha2)
    IN  [transcript |-> t3, message |-> proof.message1]

ModEq_receive_message2(t, proof) == [transcript |-> t, message |-> proof.message2]

ModEq_generate_and_send_challenge(t, crs) ==
    challenge_scalar(modeq_domain_sep(t), "c", crs.parameters.security_soundness)

\* protocols/hash_to_prime/transcript.rs: the transcript is not touched
HashToPrime_send_proof(t, ch, proof) ==
    [transcript |-> t, channel |-> [ch EXCEPT !.proof = Some(proof)]]

HashToPrime_proof(ch) == ch.proof

HashToPrime_receive_proof(t, proof) == [transcript |-> t, message |-> proof]

\* transcript/membership.rs
Membership_channel_new ==
    [ c_e |-> None, root |-> Root_channel_new, modeq |-> ModEq_channel_new,
      hash_to_prime |-> HashToPrime_channel_new ]

Membership_send_c_e(t, ch, c_e) ==
    LET t1 == membership_domain_sep(t)
        t2 == append_integer_point(t1, "c_e", c_e)
    IN  [transcript |-> t2, channel |-> [ch EXCEPT !.c_e = Some(c_e)]]

Membership_receive_c_e(t, proof) ==
    LET t1 == membership_domain_sep(t)
        t2 == append_integer_point(t1, "c_e", proof.c_e)
    IN  [transcript |-> t2, message |-> proof.c_e]

Membership_proof(ch) ==
    IF /\ is_some(Root_proof(ch.root))
       /\ is_some(ModEq_proof(ch.modeq))
       /\ is_some(HashToPrime_proof(ch.hash_to_prime))
       /\ is_some(ch.c_e)
    THEN Some([ c_e                 |-> unwrap(ch.c_e),
                proof_root          |-> unwrap(Root_proof(ch.root)),
                proof_modeq         |-> unwrap(ModEq_proof(ch.modeq)),
                proof_hash_to_prime |-> unwrap(HashToPrime_proof(ch.hash_to_prime)) ])
    ELSE None

\* transcript/nonmembership.rs
NonMembership_channel_new ==
    [ c_e |-> None, coprime |-> Coprime_channel_new, modeq |-> ModEq_channel_new,
      hash_to_prime |-> HashToPrime_channel_new ]

NonMembership_send_c_e(t, ch, c_e) ==
    LET t1 == nonmembership_domain_sep(t)
        t2 == append_integer_point(t1, "c_e", c_e)
    IN  [transcript |-> t2, channel |-> [ch EXCEPT !.c_e = Some(c_e)]]

NonMembership_receive_c_e(t, proof) ==
    LET t1 == nonmembership_domain_sep(t)
        t2 == append_integer_point(t1, "c_e", proof.c_e)
    IN  [transcript |-> t2, message |-> proof.c_e]

NonMembership_proof(ch) ==
    IF /\ is_some(Coprime_proof(ch.coprime))
       /\ is_some(ModEq_proof(ch.modeq))
       /\ is_some(HashToPrime_proof(ch.hash_to_prime))
       /\ is_some(ch.c_e)
    THEN Some([ c_e                 |-> unwrap(ch.c_e),
                proof_coprime       |-> unwrap(Coprime_proof(ch.coprime)),
                proof_modeq         |-> unwrap(ModEq_proof(ch.modeq)),
                proof_hash_to_prime |-> unwrap(HashToPrime_proof(ch.hash_to_prime)) ])
    ELSE None

(***************************************************************************)
(* The state: one prove run followed by one verify run of the protocol     *)
(* named by `mode`, as the tests of each protocol module perform them.     *)
(***************************************************************************)
VARIABLES
    mode,                     \* which Protocol is run
    crs, statement, witness,  \* arguments of prove / verify
    order,                    \* the sub-protocols in the order prove runs them
    rng1,                     \* the MutRandState handed to prove
    proof_transcript,         \* RefCell<Transcript> behind the verifier channel
    verifier_channel,         \* TranscriptVerifierChannel: messages stored so far
    verification_transcript,  \* RefCell<Transcript> behind the prover channel
    prover_channel,           \* TranscriptProverChannel: the proof it replays
    prover,                   \* locals of prove
    verifier,                 \* locals of verify
    pc,                       \* position: phase, sub-protocol index, step
    events,                   \* channel calls made so far
    result,                   \* return values of prove and verify
    call,                     \* a library function called outside a run, with its arguments
    ret                       \* what that call returned

inputs == <<mode, crs, statement, witness, order>>

prove_side == <<rng1, proof_transcript, verifier_channel, prover>>

verify_side == <<verification_transcript, prover_channel, verifier>>

library == <<call, ret>>

vars == <<inputs, prove_side, verify_side, pc, events, result, library>>

\* fault: modeq is run before root / coprime
ProveOrder_modeq_first(m) ==
    CASE m = "membership"    -> <<"modeq", "root", "hash_to_prime">>
      [] m = "nonmembership" -> <<"modeq", "coprime", "hash_to_prime">>
      [] OTHER               -> <<m>>

\* the order of the sub-protocol calls in prove
ProveOrder(m) ==
    CASE m = "membership"    -> <<"root", "modeq", "hash_to_prime">>
      [] m = "nonmembership" -> <<"coprime", "modeq", "hash_to_prime">>
      [] OTHER               -> <<m>>

\* the order of the sub-protocol calls in verify
VerifyOrder(m) ==
    CASE m = "membership"    -> <<"root", "modeq", "hash_to_prime">>
      [] m = "nonmembership" -> <<"coprime", "modeq", "hash_to_prime">>
      [] OTHER               -> <<m>>

IsComposite(m) == m \in {"membership", "nonmembership"}

\* TranscriptVerifierChannel::new of the protocol's channel
VerifierChannel_new(m) ==
    CASE m = "root"          -> [root |-> Root_channel_new]
      [] m = "coprime"       -> [coprime |-> Coprime_channel_new]
      [] m = "modeq"         -> [modeq |-> ModEq_channel_new]
      [] m = "membership"    -> Membership_channel_new
      [] m = "nonmembership" -> NonMembership_channel_new

\* verifier_channel.proof(): None stands for Err(Incomplete)
VerifierChannel_proof(m, ch) ==
    CASE m = "root" ->
           IF is_some(Root_proof(ch.root))
           THEN Some([proof_root |-> unwrap(Root_proof(ch.root))]) ELSE None
      [] m = "coprime" ->
           IF is_some(Coprime_proof(ch.coprime))
           THEN Some([proof_coprime |-> unwrap(Coprime_proof(ch.coprime))]) ELSE None
      [] m = "modeq" ->
           IF is_some(ModEq_proof(ch.modeq))
           THEN Some([proof_modeq |-> unwrap(ModEq_proof(ch.modeq))]) ELSE None
      [] m = "membership"    -> Membership_proof(ch)
      [] m = "nonmembership" -> NonMembership_proof(ch)

(***************************************************************************)
(* Inputs.                                                                 *)
(***************************************************************************)
\* (g, x) of IntegerCommitment::setup; h = g^x
SetupDraws == {<<2, 7>>, <<3, 11>>}

CRSs ==
    { [ parameters                     |-> Parameters,
        integer_commitment_parameters  |-> IntegerCommitment_new(d[1], G_exp(d[1], d[2])),
        pedersen_commitment_parameters |-> [g |-> 1, h |-> 7],
        hash_to_prime_parameters       |-> [link_base_one |-> 5] ] : d \in SetupDraws }

MaxElement == u_pow_u(2, Parameters.hash_to_prime_bits) - 1

\* elements inside the hash-to-prime range, the last one the tests' 2^mu - 245
RangeElements == {u_pow_u(2, Parameters.hash_to_prime_bits - 1), MaxElement,
                  u_pow_u(2, Parameters.hash_to_prime_bits) - 245}

\* elements the range-only hash_to_prime returns unchanged although they are
\* outside the range
OutOfRangeElements == {7}

IntegerRandomness == {0 - 7, 5}

FieldRandomness == {9, ScalarFieldModulus - 1}

AccWitnesses == {2, 5}

\* exponent of g in the accumulator of the non-membership instances
AccExponent == CHOOSE s \in {15} : TRUE

\* the Bezout pairs (a, b) with a * e + b * s = 1 and |b| <= e
Bezout(e, s) ==
    { <<(1 - b * s) \div e, b>> :
        b \in {x \in (0 - e)..e : (1 - x * s) % e = 0} }

RootInstances(c) ==
    { [ statement |-> [ c_e |-> IntegerCommitment_commit(c.integer_commitment_parameters, e, r),
                        acc |-> G_exp(w, e) ],
        witness   |-> [e |-> e, r |-> r, w |-> w] ] :
      e \in RangeElements \cup {0}, r \in IntegerRandomness, w \in AccWitnesses }

CoprimeInstances(c) ==
    UNION { { [ statement |-> [ c_e |-> IntegerCommitment_commit(
                                            c.integer_commitment_parameters, e, r),
                                acc |-> G_exp(c.integer_commitment_parameters.g, AccExponent) ],
                witness   |-> [ e |-> e, r |-> r,
                                d |-> G_exp(c.integer_commitment_parameters.g, ab[1]),
                                b |-> ab[2] ] ] :
              r \in IntegerRandomness, ab \in Bezout(e, AccExponent) } :
            e \in RangeElements }

ModEqInstances(c) ==
    { [ statement |-> [ c_e   |-> IntegerCommitment_commit(c.integer_commitment_parameters, e, r),
                        c_e_q |-> P_add(P_mul(c.pedersen_commitment_parameters.g,
                                              integer_mod_q(e)),
                                        P_mul(c.pedersen_commitment_parameters.h, r_q)) ],
        witness   |-> [e |-> e, r |-> r, r_q |-> r_q] ] :
      e \in {2, MaxElement, ScalarFieldModulus + 3619},
      r \in IntegerRandomness, r_q \in FieldRandomness }

MembershipInstances(c) ==
    { [ statement |-> [ c_e_q |-> PedersenCommitment_commit(
                                      c.pedersen_commitment_parameters,
                                      HashToPrime_hash_to_prime(e).value, r_q),
                        c_p   |-> G_exp(w, HashToPrime_hash_to_prime(e).value) ],
        witness   |-> [e |-> e, r_q |-> r_q, w |-> w] ] :
      e \in RangeElements \cup OutOfRangeElements,
      r_q \in FieldRandomness, w \in AccWitnesses }

NonMembershipInstances(c) ==
    UNION { { [ statement |-> [ c_e_q |-> PedersenCommitment_commit(
                                              c.pedersen_commitment_parameters,
                                              HashToPrime_hash_to_prime(e).value, r_q),
                                c_p   |-> G_exp(c.integer_commitment_parameters.g,
                                                AccExponent) ],
                witness   |-> [ e |-> e, r_q |-> r_q,
                                d |-> G_exp(c.integer_commitment_parameters.g, ab[1]),
                                b |-> ab[2] ] ] :
              r_q \in FieldRandomness,
              ab \in Bezout(HashToPrime_hash_to_prime(e).value, AccExponent) } :
            e \in {u_pow_u(2, Parameters.hash_to_prime_bits - 1),
                   u_pow_u(2, Parameters.hash_to_prime_bits) - 245} \cup OutOfRangeElements }

Instances(m, c) ==
    CASE m = "root"          -> RootInstances(c)
      [] m = "coprime"       -> CoprimeInstances(c)
      [] m = "modeq"         -> ModEqInstances(c)
      [] m = "membership"    -> MembershipInstances(c)
      [] m = "nonmembership" -> NonMembershipInstances(c)

Modes == {"root", "coprime", "modeq", "membership", "nonmembership"}

InitRun(m, c, i, o, tape) ==
    /\ mode = m
    /\ crs = c
    /\ statement = i.statement
    /\ witness = i.witness
    /\ order = o
    /\ rng1 = [tape |-> tape, pos |-> 0]
    /\ proof_transcript = Transcript_new(m)
    /\ verifier_channel = VerifierChannel_new(m)
    /\ verification_transcript = <<>>
    /\ prover_channel = [proof |-> None]
    /\ prover = [hashed_e |-> 0, r |-> 0, c_e |-> 0, l |-> <<>>, cs |-> <<>>]
    /\ verifier = [c_e |-> 0, message1 |-> <<>>, message2 |-> <<>>, cs |-> <<>>]
    /\ pc = [phase |-> "prove", idx |-> IF IsComposite(m) THEN 0 ELSE 1, step |-> 1]
    /\ events = <<>>
    /\ result = [prove |-> "running", verify |-> "not started"]
    /\ call = [fn |-> "none"]
    /\ ret = None

Init ==
    \E m \in Modes, c \in CRSs, tape \in Tapes :
        \E i \in Instances(m, c) : InitRun(m, c, i, ProveOrder(m), tape)

(***************************************************************************)
(* Positions and the statements / witnesses handed to the sub-protocols    *)
(* (membership/mod.rs, nonmembership/mod.rs).                              *)
(***************************************************************************)
Proving(sub, step) ==
    /\ pc.phase = "prove" /\ pc.idx >= 1
    /\ order[pc.idx] = sub /\ pc.step = step

Verifying(sub, step) ==
    /\ pc.phase = "verify" /\ pc.idx >= 1
    /\ VerifyOrder(mode)[pc.idx] = sub /\ pc.step = step

\* the sub-protocol returned Ok: the next call, or the end of prove / verify
NextSub ==
    IF pc.idx = Len(order)
    THEN [phase |-> IF pc.phase = "prove" THEN "proved" ELSE "done", idx |-> 0, step |-> 0]
    ELSE [pc EXCEPT !.idx = @ + 1, !.step = 1]

Failed == [phase |-> "done", idx |-> 0, step |-> 0]

\* fault: the sub-statements carry the commitment of the prover's own
\* witness instead of the caller's C_e_q
SubStatement_own_c_e_q(c_e) ==
    IF IsComposite(mode)
    THEN [c_e |-> c_e, acc |-> statement.c_p,
          c_e_q |-> PedersenCommitment_commit(crs.pedersen_commitment_parameters,
                                              integer_mod_q(witness.e), witness.r_q)]
    ELSE statement

SubStatement(c_e) ==
    IF IsComposite(mode)
    THEN [c_e |-> c_e, acc |-> statement.c_p, c_e_q |-> statement.c_e_q]
    ELSE statement

RootWitness ==
    IF IsComposite(mode)
    THEN [e |-> prover.hashed_e, r |-> prover.r, w |-> witness.w]
    ELSE witness

\* fault: the randomness of c_e is not handed to the coprime prover
CoprimeWitness_without_r ==
    IF IsComposite(mode)
    THEN [e |-> prover.hashed_e, r |-> 0, d |-> witness.d, b |-> witness.b]
    ELSE witness

CoprimeWitness ==
    IF IsComposite(mode)
    THEN [e |-> prover.hashed_e, r |-> prover.r, d |-> witness.d, b |-> witness.b]
    ELSE witness

\* fault: the modeq prover gets a randomness other than the one of C_e
ModEqWitness_other_r ==
    IF IsComposite(mode)
    THEN [e |-> prover.hashed_e, r |-> prover.r + 1, r_q |-> witness.r_q]
    ELSE witness

ModEqWitness ==
    IF IsComposite(mode)
    THEN [e |-> prover.hashed_e, r |-> prover.r, r_q |-> witness.r_q]
    ELSE witness

HashToPrimeWitness == [e |-> witness.e, r_q |-> witness.r_q]

\* Protocol::hash_to_prime of membership and non-membership: the
\* hash_to_prime of the protocol HP the CRS was set up for, the range proof
\* unless the hash-to-prime parameters are those of the Blake2s circuit
Protocol_hash_to_prime(c, e) ==
    IF "circuit" \in DOMAIN c.hash_to_prime_parameters
    THEN SnarkHash_hash_to_prime(c, e).result
    ELSE <<"Ok", HashToPrime_hash_to_prime(e).value, HashToPrime_hash_to_prime(e).index>>

Event(side, sub, op) == Append(events, <<side, sub, op>>)

(***************************************************************************)
(* prove                                                                   *)
(***************************************************************************)
\* membership::Protocol::prove up to send_c_e
\* fault: C_e is sent before the outcome of hash_to_prime is looked at
Membership_prove_c_e_sent_first ==
    /\ mode = "membership" /\ pc.phase = "prove" /\ pc.idx = 0
    /\ \E hashed \in {Protocol_hash_to_prime(crs, witness.e)} :
       \E hashed_e \in {IF hashed[1] = "Ok" THEN hashed[2] ELSE witness.e} :
       \E r \in {random_between(rng1, 0, 0, order_upper_bound)} :
       \E c_e \in {IntegerCommitment_commit(crs.integer_commitment_parameters, hashed_e, r)} :
       \E s \in {Membership_send_c_e(proof_transcript, verifier_channel, c_e)} :
           /\ prover' = [prover EXCEPT !.hashed_e = hashed_e, !.r = r, !.c_e = c_e]
           /\ rng1' = rng_after(rng1, 1)
           /\ proof_transcript' = s.transcript
           /\ verifier_channel' = s.channel
           /\ events' = Event("prove", "membership", "send_c_e")
           /\ IF hashed[1] = "Ok"
              THEN /\ pc' = [pc EXCEPT !.idx = 1, !.step = 1]
                   /\ UNCHANGED result
              ELSE /\ pc' = Failed
                   /\ result' = [result EXCEPT !.prove = hashed[1]]
    /\ UNCHANGED <<inputs, library, verify_side>>

Membership_prove_c_e ==
    /\ mode = "membership" /\ pc.phase = "prove" /\ pc.idx = 0
    /\ \E hashed \in {Protocol_hash_to_prime(crs, witness.e)} :
         IF hashed[1] = "Ok"
         THEN \E hashed_e \in {hashed[2]} :
              \E r \in {random_between(rng1, 0, 0, order_upper_bound)} :
              \E c_e \in {IntegerCommitment_commit(crs.integer_commitment_parameters,
                                                   hashed_e, r)} :
              \E s \in {Membership_send_c_e(proof_transcript, verifier_channel, c_e)} :
                  /\ prover' = [prover EXCEPT !.hashed_e = hashed_e, !.r = r, !.c_e = c_e]
                  /\ rng1' = rng_after(rng1, 1)
                  /\ proof_transcript' = s.transcript
                  /\ verifier_channel' = s.channel
                  /\ events' = Event("prove", "membership", "send_c_e")
                  /\ pc' = [pc EXCEPT !.idx = 1, !.step = 1]
                  /\ UNCHANGED result
         ELSE /\ pc' = Failed
              /\ result' = [result EXCEPT !.prove = hashed[1]]
              /\ UNCHANGED <<prove_side, events>>
    /\ UNCHANGED <<inputs, library, verify_side>>

\* nonmembership::Protocol::prove up to CoprimeProtocol::from_crs
\* fault: the error of from_crs is noted, and prove goes on
NonMembership_prove_c_e_going_on ==
    /\ mode = "nonmembership" /\ pc.phase = "prove" /\ pc.idx = 0
    /\ \E hashed_e \in {HashToPrime_hash_to_prime(witness.e).value} :
       \E r \in {random_between(rng1, 0, 0, order_upper_bound)} :
       \E c_e \in {IntegerCommitment_commit(crs.integer_commitment_parameters, hashed_e, r)} :
       \E s \in {NonMembership_send_c_e(proof_transcript, verifier_channel, c_e)} :
           /\ prover' = [prover EXCEPT !.hashed_e = hashed_e, !.r = r, !.c_e = c_e]
           /\ rng1' = rng_after(rng1, 1)
           /\ proof_transcript' = s.transcript
           /\ verifier_channel' = s.channel
           /\ events' = Event("prove", "nonmembership", "send_c_e")
    /\ IF Coprime_from_crs(crs) = "Ok"
       THEN /\ pc' = [pc EXCEPT !.idx = 1, !.step = 1]
            /\ UNCHANGED result
       ELSE /\ pc' = [pc EXCEPT !.idx = 1, !.step = 1]
            /\ result' = [result EXCEPT !.prove = "CRSError"]
    /\ UNCHANGED <<inputs, library, verify_side>>

NonMembership_prove_c_e ==
    /\ mode = "nonmembership" /\ pc.phase = "prove" /\ pc.idx = 0
    /\ \E hashed \in {Protocol_hash_to_prime(crs, witness.e)} :
         IF hashed[1] = "Ok"
         THEN /\ \E hashed_e \in {hashed[2]} :
                 \E r \in {random_between(rng1, 0, 0, order_upper_bound)} :
                 \E c_e \in {IntegerCommitment_commit(crs.integer_commitment_parameters,
                                                      hashed_e, r)} :
                 \E s \in {NonMembership_send_c_e(proof_transcript, verifier_channel, c_e)} :
                     /\ prover' = [prover EXCEPT !.hashed_e = hashed_e, !.r = r, !.c_e = c_e]
                     /\ rng1' = rng_after(rng1, 1)
                     /\ proof_transcript' = s.transcript
                     /\ verifier_channel' = s.channel
                     /\ events' = Event("prove", "nonmembership", "send_c_e")
              /\ IF Coprime_from_crs(crs) = "Ok"
                 THEN /\ pc' = [pc EXCEPT !.idx = 1, !.step = 1]
                      /\ UNCHANGED result
                 ELSE /\ pc' = Failed
                      /\ result' = [result EXCEPT !.prove = "CRSError"]
         ELSE /\ pc' = Failed
              /\ result' = [result EXCEPT !.prove = hashed[1]]
              /\ UNCHANGED <<prove_side, events>>
    /\ UNCHANGED <<inputs, library, verify_side>>

Root_prove_send_message1 ==
    /\ Proving("root", 1)
    /\ \E m \in {Root_prove_message1(crs, RootWitness, rng1)} :
       \E s \in {Root_send_message1(proof_transcript, verifier_channel.root, m.message1)} :
           /\ prover' = [prover EXCEPT !.l = m]
           /\ rng1' = rng_after(rng1, 2)
           /\ proof_transcript' = s.transcript
           /\ verifier_channel' = [verifier_channel EXCEPT !.root = s.channel]
    /\ events' = Event("prove", "root", "send_message1")
    /\ pc' = [pc EXCEPT !.step = 2]
    /\ UNCHANGED <<inputs, library, verify_side, result>>

Root_prove_send_message2 ==
    /\ Proving("root", 2)
    /\ \E m \in {Root_prove_message2(crs, prover.l.message1, rng1)} :
       \E s \in {Root_send_message2(proof_transcript, verifier_channel.root, m.message2)} :
           /\ prover' = [prover EXCEPT !.l = m @@ prover.l]
           /\ rng1' = rng_after(rng1, 6)
           /\ proof_transcript' = s.transcript
           /\ verifier_channel' = [verifier_channel EXCEPT !.root = s.channel]
    /\ events' = Event("prove", "root", "send_message2")
    /\ pc' = [pc EXCEPT !.step = 3]
    /\ UNCHANGED <<inputs, library, verify_side, result>>

Root_prove_receive_challenge ==
    /\ Proving("root", 3)
    /\ \E r \in {Root_receive_challenge(proof_transcript, crs)} :
           /\ prover' = [prover EXCEPT !.l = [c |-> r.value] @@ prover.l,
                                       !.cs = Append(@, r.value)]
           /\ proof_transcript' = r.transcript
    /\ events' = Event("prove", "root", "receive_challenge")
    /\ pc' = [pc EXCEPT !.step = 4]
    /\ UNCHANGED <<inputs, library, rng1, verifier_channel, verify_side, result>>

Root_prove_send_message3 ==
    /\ Proving("root", 4)
    /\ \E m \in {Root_prove_message3(RootWitness, prover.l, prover.l.c)} :
       \E s \in {Root_send_message3(proof_transcript, verifier_channel.root, m)} :
           /\ proof_transcript' = s.transcript
           /\ verifier_channel' = [verifier_channel EXCEPT !.root = s.channel]
    /\ prover' = [prover EXCEPT !.l = <<>>]
    /\ events' = Event("prove", "root", "send_message3")
    /\ pc' = NextSub
    /\ UNCHANGED <<inputs, library, rng1, verify_side, result>>

Coprime_prove_send_message1 ==
    /\ Proving("coprime", 1)
    /\ \E m \in {Coprime_prove_message1(crs, SubStatement(prover.c_e), CoprimeWitness, rng1)} :
       \E s \in {Coprime_send_message1(proof_transcript, verifier_channel.coprime, m.message1)} :
           /\ prover' = [prover EXCEPT !.l = m]
           /\ rng1' = rng_after(rng1, 4)
           /\ proof_transcript' = s.transcript
           /\ verifier_channel' = [verifier_channel EXCEPT !.coprime = s.channel]
    /\ events' = Event("prove", "coprime", "send_message1")
    /\ pc' = [pc EXCEPT !.step = 2]
    /\ UNCHANGED <<inputs, library, verify_side, result>>

Coprime_prove_send_message2 ==
    /\ Proving("coprime", 2)
    /\ \E m \in {Coprime_prove_message2(crs, SubStatement(prover.c_e), prover.l.message1, rng1)} :
       \E s \in {Coprime_send_message2(proof_transcript, verifier_channel.coprime, m.message2)} :
           /\ prover' = [prover EXCEPT !.l = m @@ prover.l]
           /\ rng1' = rng_after(rng1, 9)
           /\ proof_transcript' = s.transcript
           /\ verifier_channel' = [verifier_channel EXCEPT !.coprime = s.channel]
    /\ events' = Event("prove", "coprime", "send_message2")
    /\ pc' = [pc EXCEPT !.step = 3]
    /\ UNCHANGED <<inputs, library, verify_side, result>>

Coprime_prove_receive_challenge ==
    /\ Proving("coprime", 3)
    /\ \E r \in {Coprime_receive_challenge(proof_transcript, crs)} :
           /\ prover' = [prover EXCEPT !.l = [c |-> r.value] @@ prover.l,
                                       !.cs = Append(@, r.value)]
           /\ proof_transcript' = r.transcript
    /\ events' = Event("prove", "coprime", "receive_challenge")
    /\ pc' = [pc EXCEPT !.step = 4]
    /\ UNCHANGED <<inputs, library, rng1, verifier_channel, verify_side, result>>

Coprime_prove_send_message3 ==
    /\ Proving("coprime", 4)
    /\ \E m \in {Coprime_prove_message3(CoprimeWitness, prover.l, prover.l.c)} :
       \E s \in {Coprime_send_message3(proof_transcript, verifier_channel.coprime, m)} :
           /\ proof_transcript' = s.transcript
           /\ verifier_channel' = [verifier_channel EXCEPT !.coprime = s.channel]
    /\ prover' = [prover EXCEPT !.l = <<>>]
    /\ events' = Event("prove", "coprime", "send_message3")
    /\ pc' = NextSub
    /\ UNCHANGED <<inputs, library, rng1, verify_side, result>>

\* the assertion on field_size_bits precedes the draw from rng2
ModEq_prove_send_message1 ==
    /\ Proving("modeq", 1)
    /\ IF crs.parameters.field_size_bits < size_in_bits
       THEN /\ result' = [result EXCEPT !.prove = "panic"]
            /\ pc' = Failed
            /\ UNCHANGED <<prove_side, events>>
       ELSE /\ \E r_r_q_field \in SampleScalars :
                \E m \in {ModEq_prove_message1(crs, rng1, r_r_q_field)} :
                \E s \in {ModEq_send_message1(proof_transcript, verifier_channel.modeq,
                          m.message1)} :
                    /\ prover' = [prover EXCEPT !.l = m]
                    /\ rng1' = rng_after(rng1, 2)
                    /\ proof_transcript' = s.transcript
                    /\ verifier_channel' = [verifier_channel EXCEPT !.modeq = s.channel]
            /\ events' = Event("prove", "modeq", "send_message1")
            /\ pc' = [pc EXCEPT !.step = 2]
            /\ UNCHANGED result
    /\ UNCHANGED <<inputs, library, verify_side>>

ModEq_prove_receive_challenge ==
    /\ Proving("modeq", 2)
    /\ \E r \in {ModEq_receive_challenge(proof_transcript, crs)} :
           /\ prover' = [prover EXCEPT !.l = [c |-> r.value] @@ prover.l,
                                       !.cs = Append(@, r.value)]
           /\ proof_transcript' = r.transcript
    /\ events' = Event("prove", "modeq", "receive_challenge")
    /\ pc' = [pc EXCEPT !.step = 3]
    /\ UNCHANGED <<inputs, library, rng1, verifier_channel, verify_side, result>>

ModEq_prove_send_message2 ==
    /\ Proving("modeq", 3)
    /\ \E m \in {ModEq_prove_message2(ModEqWitness, prover.l, prover.l.c)} :
       \E s \in {ModEq_send_message2(proof_transcript, verifier_channel.modeq, m)} :
           /\ proof_transcript' = s.transcript
           /\ verifier_channel' = [verifier_channel EXCEPT !.modeq = s.channel]
    /\ prover' = [prover EXCEPT !.l = <<>>]
    /\ events' = Event("prove", "modeq", "send_message2")
    /\ pc' = NextSub
    /\ UNCHANGED <<inputs, library, rng1, verify_side, result>>

HashToPrime_prove_send_proof ==
    /\ Proving("hash_to_prime", 1)
    /\ \E proof \in {HashToPrime_prove(crs, HashToPrimeWitness)} :
       \E s \in {HashToPrime_send_proof(proof_transcript, verifier_channel.hash_to_prime,
                 proof)} :
           /\ proof_transcript' = s.transcript
           /\ verifier_channel' = [verifier_channel EXCEPT !.hash_to_prime = s.channel]
    /\ events' = Event("prove", "hash_to_prime", "send_proof")
    /\ pc' = NextSub
    /\ UNCHANGED <<inputs, library, rng1, prover, verify_side, result>>

(***************************************************************************)
(* From prove to verify: prove returned Ok, the proof is taken out of the  *)
(* verifier channel and a prover channel is built over a new transcript    *)
(* with the same label.                                                    *)
(***************************************************************************)
TranscriptProverChannel_new ==
    /\ pc.phase = "proved"
    /\ \E proof \in {VerifierChannel_proof(mode, verifier_channel)} :
           IF is_some(proof)
           THEN /\ prover_channel' = [proof |-> proof]
                /\ verification_transcript' = Transcript_new(mode)
                /\ pc' = [phase |-> "verify", idx |-> IF IsComposite(mode) THEN 0 ELSE 1,
                          step |-> 1]
                /\ result' = [result EXCEPT !.prove = "Ok", !.verify = "running"]
           ELSE /\ pc' = Failed
                /\ result' = [result EXCEPT !.prove = "Ok", !.verify = "Incomplete"]
                /\ UNCHANGED <<prover_channel, verification_transcript>>
    /\ UNCHANGED <<inputs, library, prove_side, verifier, events>>

(***************************************************************************)
(* verify                                                                  *)
(***************************************************************************)
Proof == unwrap(prover_channel.proof)

\* a sub-protocol's verify returned: Ok moves on, an error ends verify
\* fault: a failed verification is reported under the name of the
\* sub-protocol whose check failed
Return_naming(ok) ==
    IF ok
    THEN /\ pc' = NextSub
         /\ result' = IF NextSub.phase = "done"
                      THEN [result EXCEPT !.verify = "Ok"] ELSE result
    ELSE /\ pc' = Failed
         /\ result' = [result EXCEPT !.verify = VerifyOrder(mode)[pc.idx]]

Return(ok) ==
    IF ok
    THEN /\ pc' = NextSub
         /\ result' = IF NextSub.phase = "done"
                      THEN [result EXCEPT !.verify = "Ok"] ELSE result
    ELSE /\ pc' = Failed
         /\ result' = [result EXCEPT !.verify = "VerificationFailed"]

Membership_verify_receive_c_e ==
    /\ mode = "membership" /\ pc.phase = "verify" /\ pc.idx = 0
    /\ \E r \in {Membership_receive_c_e(verification_transcript, Proof)} :
           /\ verifier' = [verifier EXCEPT !.c_e = r.message]
           /\ verification_transcript' = r.transcript
    /\ events' = Event("verify", "membership", "receive_c_e")
    /\ pc' = [pc EXCEPT !.idx = 1, !.step = 1]
    /\ UNCHANGED <<inputs, library, prove_side, prover_channel, result>>

NonMembership_verify_receive_c_e ==
    /\ mode = "nonmembership" /\ pc.phase = "verify" /\ pc.idx = 0
    /\ \E r \in {NonMembership_receive_c_e(verification_transcript, Proof)} :
           /\ verifier' = [verifier EXCEPT !.c_e = r.message]
           /\ verification_transcript' = r.transcript
    /\ events' = Event("verify", "nonmembership", "receive_c_e")
    /\ IF Coprime_from_crs(crs) = "Ok"
       THEN /\ pc' = [pc EXCEPT !.idx = 1, !.step = 1]
            /\ UNCHANGED result
       ELSE /\ pc' = Failed
            /\ result' = [result EXCEPT !.verify = "CRSError"]
    /\ UNCHANGED <<inputs, library, prove_side, prover_channel>>

Root_verify_receive_message1 ==
    /\ Verifying("root", 1)
    /\ \E r \in {Root_receive_message1(verification_transcript, Proof.proof_root)} :
           /\ verifier' = [verifier EXCEPT !.message1 = r.message]
           /\ verification_transcript' = r.transcript
    /\ events' = Event("verify", "root", "receive_message1")
    /\ pc' = [pc EXCEPT !.step = 2]
    /\ UNCHANGED <<inputs, library, prove_side, prover_channel, result>>

Root_verify_receive_message2 ==
    /\ Verifying("root", 2)
    /\ \E r \in {Root_receive_message2(verification_transcript, Proof.proof_root)} :
           /\ verifier' = [verifier EXCEPT !.message2 = r.message]
           /\ verification_transcript' = r.transcript
    /\ events' = Event("verify", "root", "receive_message2")
    /\ pc' = [pc EXCEPT !.step = 3]
    /\ UNCHANGED <<inputs, library, prove_side, prover_channel, result>>

Root_verify_generate_and_send_challenge ==
    /\ Verifying("root", 3)
    /\ \E r \in {Root_generate_and_send_challenge(verification_transcript, crs)} :
           /\ verifier' = [verifier EXCEPT !.cs = Append(@, r.value)]
           /\ verification_transcript' = r.transcript
    /\ events' = Event("verify", "root", "generate_and_send_challenge")
    /\ pc' = [pc EXCEPT !.step = 4]
    /\ UNCHANGED <<inputs, library, prove_side, prover_channel, result>>

Root_verify_receive_message3 ==
    /\ Verifying("root", 4)
    /\ \E r \in {Root_receive_message3(verification_transcript, Proof.proof_root)} :
       \E c \in {verifier.cs[Len(verifier.cs)]} :
           /\ verification_transcript' = r.transcript
           /\ Return(Root_verify_check(crs, SubStatement(verifier.c_e), verifier.message1,
                                       verifier.message2, c, r.message))
    /\ verifier' = [verifier EXCEPT !.message1 = <<>>, !.message2 = <<>>]
    /\ events' = Event("verify", "root", "receive_message3")
    /\ UNCHANGED <<inputs, library, prove_side, prover_channel>>

Coprime_verify_receive_message1 ==
    /\ Verifying("coprime", 1)
    /\ \E r \in {Coprime_receive_message1(verification_transcript, Proof.proof_coprime)} :
           /\ verifier' = [verifier EXCEPT !.message1 = r.message]
           /\ verification_transcript' = r.transcript
    /\ events' = Event("verify", "coprime", "receive_message1")
    /\ pc' = [pc EXCEPT !.step = 2]
    /\ UNCHANGED <<inputs, library, prove_side, prover_channel, result>>

Coprime_verify_receive_message2 ==
    /\ Verifying("coprime", 2)
    /\ \E r \in {Coprime_receive_message2(verification_transcript, Proof.proof_coprime)} :
           /\ verifier' = [verifier EXCEPT !.message2 = r.message]
           /\ verification_transcript' = r.transcript
    /\ events' = Event("verify", "coprime", "receive_message2")
    /\ pc' = [pc EXCEPT !.step = 3]
    /\ UNCHANGED <<inputs, library, prove_side, prover_channel, result>>

Coprime_verify_generate_and_send_challenge ==
    /\ Verifying("coprime", 3)
    /\ \E r \in {Coprime_generate_and_send_challenge(verification_transcript, crs)} :
           /\ verifier' = [verifier EXCEPT !.cs = Append(@, r.value)]
           /\ verification_transcript' = r.transcript
    /\ events' = Event("verify", "coprime", "generate_and_send_challenge")
    /\ pc' = [pc EXCEPT !.step = 4]
    /\ UNCHANGED <<inputs, library, prove_side, prover_channel, result>>

Coprime_verify_receive_message3 ==
    /\ Verifying("coprime", 4)
    /\ \E r \in {Coprime_receive_message3(verification_transcript, Proof.proof_coprime)} :
       \E c \in {verifier.cs[Len(verifier.cs)]} :
           /\ verification_transcript' = r.transcript
           /\ Return(Coprime_verify_check(crs, SubStatement(verifier.c_e), verifier.message1,
                                          verifier.message2, c, r.message))
    /\ verifier' = [verifier EXCEPT !.message1 = <<>>, !.message2 = <<>>]
    /\ events' = Event("verify", "coprime", "receive_message3")
    /\ UNCHANGED <<inputs, library, prove_side, prover_channel>>

ModEq_verify_receive_message1 ==
    /\ Verifying("modeq", 1)
    /\ \E r \in {ModEq_receive_message1(verification_transcript, Proof.proof_modeq)} :
           /\ verifier' = [verifier EXCEPT !.message1 = r.message]
           /\ verification_transcript' = r.transcript
    /\ events' = Event("verify", "modeq", "receive_message1")
    /\ pc' = [pc EXCEPT !.step = 2]
    /\ UNCHANGED <<inputs, library, prove_side, prover_channel, result>>

ModEq_verify_generate_and_send_challenge ==
    /\ Verifying("modeq", 2)
    /\ \E r \in {ModEq_generate_and_send_challenge(verification_transcript, crs)} :
           /\ verifier' = [verifier EXCEPT !.cs = Append(@, r.value)]
           /\ verification_transcript' = r.transcript
    /\ events' = Event("verify", "modeq", "generate_and_send_challenge")
    /\ pc' = [pc EXCEPT !.step = 3]
    /\ UNCHANGED <<inputs, library, prove_side, prover_channel, result>>

ModEq_verify_receive_message2 ==
    /\ Verifying("modeq", 3)
    /\ \E r \in {ModEq_receive_message2(verification_transcript, Proof.proof_modeq)} :
       \E c \in {verifier.cs[Len(verifier.cs)]} :
           /\ verification_transcript' = r.transcript
           /\ Return(ModEq_verify_check(crs, SubStatement(verifier.c_e), verifier.message1,
                                        c, r.message))
    /\ verifier' = [verifier EXCEPT !.message1 = <<>>]
    /\ events' = Event("verify", "modeq", "receive_message2")
    /\ UNCHANGED <<inputs, library, prove_side, prover_channel>>

HashToPrime_verify_receive_proof ==
    /\ Verifying("hash_to_prime", 1)
    /\ \E r \in {HashToPrime_receive_proof(verification_transcript, Proof.proof_hash_to_prime)} :
           /\ verification_transcript' = r.transcript
           /\ Return(HashToPrime_verify_check(crs, statement, r.message))
    /\ events' = Event("verify", "hash_to_prime", "receive_proof")
    /\ UNCHANGED <<inputs, library, prove_side, prover_channel, verifier>>

Next ==
    \/ Membership_prove_c_e
    \/ NonMembership_prove_c_e
    \/ Root_prove_send_message1
    \/ Root_prove_send_message2
    \/ Root_prove_receive_challenge
    \/ Root_prove_send_message3
    \/ Coprime_prove_send_message1
    \/ Coprime_prove_send_message2
    \/ Coprime_prove_receive_challenge
    \/ Coprime_prove_send_message3
    \/ ModEq_prove_send_message1
    \/ ModEq_prove_receive_challenge
    \/ ModEq_prove_send_message2
    \/ HashToPrime_prove_send_proof
    \/ TranscriptProverChannel_new
    \/ Membership_verify_receive_c_e
    \/ NonMembership_verify_receive_c_e
    \/ Root_verify_receive_message1
    \/ Root_verify_receive_message2
    \/ Root_verify_generate_and_send_challenge
    \/ Root_verify_receive_message3
    \/ Coprime_verify_receive_message1
    \/ Coprime_verify_receive_message2
    \/ Coprime_verify_generate_and_send_challenge
    \/ Coprime_verify_receive_message3
    \/ ModEq_verify_receive_message1
    \/ ModEq_verify_generate_and_send_challenge
    \/ ModEq_verify_receive_message2
    \/ HashToPrime_verify_receive_proof

Spec == Init /\ [][Next]_vars

(***************************************************************************)
(* Properties.                                                             *)
(***************************************************************************)
Done == pc.phase = "done"

IsPrefix(a, b) == Len(a) <= Len(b) /\ SubSeq(b, 1, Len(a)) = a

LastChallenge == verifier.cs[Len(verifier.cs)]

\* C3: Root completeness.  Whenever Root.verify has replayed M1 and M2 and
\* drawn its challenge, the M3 the honest prover stored satisfies each of the
\* four verification equations and the range check on s_e, whatever the signs
\* of the responses; a standalone Root.verify therefore returns Ok.
C3_RootCompleteness ==
    /\ Verifying("root", 4) =>
         LET m3       == Proof.proof_root.message3
             expected == Root_expected(crs, SubStatement(verifier.c_e), verifier.message1,
                                       LastChallenge, m3)
         IN  /\ expected.alpha1 = verifier.message2.alpha1
             /\ expected.alpha2 = verifier.message2.alpha2
             /\ expected.alpha3 = verifier.message2.alpha3
             /\ expected.alpha4 = verifier.message2.alpha4
             /\ is_s_e_in_range(crs, m3.s_e)
    /\ (mode = "root" /\ Done) => (result.prove = "Ok" /\ result.verify = "Ok")

\* a standalone root run accepted with a large challenge and negative s_e,
\* s_r and s_beta
C3_Witness ==
    /\ mode = "root" /\ Done /\ result.verify = "Ok"
    /\ verifier.cs[1] >= 128
    /\ Proof.proof_root.message3.s_e < 0
    /\ Proof.proof_root.message3.s_r < 0
    /\ Proof.proof_root.message3.s_beta < 0

\* C4: Coprime completeness.  Whenever Coprime.verify has replayed M1 and M2
\* and drawn its challenge, the M3 of the honest prover satisfies the six
\* equalities alpha2..alpha7 and the range check on s_e; a standalone
\* Coprime.verify therefore returns Ok.
C4_CoprimeCompleteness ==
    /\ Verifying("coprime", 4) =>
         LET m3       == Proof.proof_coprime.message3
             expected == Coprime_expected(crs, SubStatement(verifier.c_e), verifier.message1,
                                          LastChallenge, m3)
         IN  /\ expected.alpha2 = verifier.message2.alpha2
             /\ expected.alpha3 = verifier.message2.alpha3
             /\ expected.alpha4 = verifier.message2.alpha4
             /\ expected.alpha5 = verifier.message2.alpha5
             /\ expected.alpha6 = verifier.message2.alpha6
             /\ expected.alpha7 = verifier.message2.alpha7
             /\ is_s_e_in_range(crs, m3.s_e)
    /\ (mode = "coprime" /\ Done) => (result.prove = "Ok" /\ result.verify = "Ok")

\* a standalone coprime run accepted with a non-zero challenge, a negative
\* Bezout coefficient b and a negative s_e
C4_Witness ==
    /\ mode = "coprime" /\ Done /\ result.verify = "Ok"
    /\ verifier.cs[1] >= 128
    /\ witness.b < 0
    /\ Proof.proof_coprime.message3.s_e < 0
    /\ Proof.proof_coprime.message3.s_beta # 0

\* C5: ModEq completeness.  Whenever ModEq.verify has replayed M1 and drawn
\* its challenge, the M2 of the honest prover satisfies the integer check and
\* the curve check, also when s_e is negative; a standalone ModEq.verify
\* therefore returns Ok.
C5_ModEqCompleteness ==
    /\ Verifying("modeq", 3) =>
         LET m2       == Proof.proof_modeq.message2
             expected == ModEq_expected(crs, SubStatement(verifier.c_e), LastChallenge, m2)
         IN  /\ expected.alpha1 = verifier.message1.alpha1
             /\ expected.alpha2 = verifier.message1.alpha2
    /\ (mode = "modeq" /\ Done) => (result.prove = "Ok" /\ result.verify = "Ok")

\* a standalone modeq run accepted with a non-zero challenge, an element
\* above q and a negative s_e that is not a multiple of q
C5_Witness ==
    /\ mode = "modeq" /\ Done /\ result.verify = "Ok"
    /\ verifier.cs[1] > 0
    /\ witness.e > ScalarFieldModulus
    /\ Proof.proof_modeq.message2.s_e < 0
    /\ Proof.proof_modeq.message2.s_e % ScalarFieldModulus # 0

InRange ==
    HashToPrimeCircuit_satisfied(crs.parameters.hash_to_prime_bits,
                                 HashToPrime_hash_to_prime(witness.e).value)

C6_FiatShamirReplay ==
    (pc.phase \in {"verify", "done"} /\ result.verify # "not started"
        /\ result.verify # "Incomplete") =>
        /\ IsPrefix(verification_transcript.log, proof_transcript.log)
        /\ IsPrefix(verifier.cs, prover.cs)
        /\ result.verify = "Ok" =>
             /\ verification_transcript = proof_transcript
             /\ verifier.cs = prover.cs

\* an accepted non-membership run: two challenges re-derived, both non-zero
\* and different, over a transcript of more than twenty operations
C6_Witness ==
    /\ mode = "nonmembership" /\ Done /\ result.verify = "Ok"
    /\ Len(verifier.cs) = 2 /\ verifier.cs[1] > 0 /\ verifier.cs[2] > 0
    /\ verifier.cs[1] # verifier.cs[2]
    /\ Len(verification_transcript.log) > 20

(***************************************************************************)
(* A prover that runs the three sub-protocols of a composite in any order: *)
(* the same run, started from every permutation of the sub-protocol calls. *)
(***************************************************************************)
Permutations3(o) ==
    { <<o[p[1]], o[p[2]], o[p[3]]>> :
        p \in {<<1, 2, 3>>, <<1, 3, 2>>, <<2, 1, 3>>, <<2, 3, 1>>, <<3, 1, 2>>, <<3, 2, 1>>} }

InitSwap ==
    \E m \in {"membership", "nonmembership"}, c \in CRSs, tape \in Tapes :
        \E i \in Instances(m, c), o \in Permutations3(ProveOrder(m)) :
            InitRun(m, c, i, o, tape)

SpecSwap == InitSwap /\ [][Next]_vars

\* C7: Composition ordering.  A membership proof whose prover ran root,
\* modeq and hash-to-prime in any order other than this one is rejected by
\* verify.
C7_CompositionOrdering ==
    (mode = "membership" /\ order # ProveOrder(mode) /\ Done /\ result.prove = "Ok") =>
        result.verify # "Ok"

ProveEvents == SelectSeq(events, LAMBDA e : e[1] = "prove")

VerifyEvents == SelectSeq(events, LAMBDA e : e[1] = "verify")

FirstSub == IF mode = "membership" THEN "root" ELSE "coprime"

ExpectedProveEvents ==
    << <<"prove", mode, "send_c_e">>,
       <<"prove", FirstSub, "send_message1">>,
       <<"prove", FirstSub, "send_message2">>,
       <<"prove", FirstSub, "receive_challenge">>,
       <<"prove", FirstSub, "send_message3">>,
       <<"prove", "modeq", "send_message1">>,
       <<"prove", "modeq", "receive_challenge">>,
       <<"prove", "modeq", "send_message2">>,
       <<"prove", "hash_to_prime", "send_proof">> >>

ExpectedVerifyEvents ==
    << <<"verify", mode, "receive_c_e">>,
       <<"verify", FirstSub, "receive_message1">>,
       <<"verify", FirstSub, "receive_message2">>,
       <<"verify", FirstSub, "generate_and_send_challenge">>,
       <<"verify", FirstSub, "receive_message3">>,
       <<"verify", "modeq", "receive_message1">>,
       <<"verify", "modeq", "generate_and_send_challenge">>,
       <<"verify", "modeq", "receive_message2">>,
       <<"verify", "hash_to_prime", "receive_proof">> >>

CompositeLabel == IF mode = "membership" THEN "membership" ELSE "nonmembership"

\* the transcript operations that absorb C_e: the composite domain separator,
\* then the commitment
AbsorbsC_e(log, i) ==
    /\ log[i] = [op |-> "append", label |-> "dom-sep", bytes |-> Ascii(CompositeLabel)]
    /\ log[i + 1].op = "append" /\ log[i + 1].label = "c_e"

\* C8: Total order of a composite run.  The channel calls of prove are, in
\* order, send_c_e; M1, M2, challenge, M3 of Root (Coprime); M1, challenge, M2
\* of ModEq; the hash-to-prime proof; those of verify are the mirrored
\* receives in the same order; C_e is absorbed exactly once, under the
\* composite domain separator, as the first operation on each transcript.
C8_TotalOrder ==
    IsComposite(mode) =>
        /\ events = ProveEvents \o VerifyEvents
        /\ IsPrefix(ProveEvents, ExpectedProveEvents)
        /\ IsPrefix(VerifyEvents, ExpectedVerifyEvents)
        /\ pc.phase \in {"proved", "verify", "done"} => ProveEvents = ExpectedProveEvents
        /\ result.verify = "Ok" => VerifyEvents = ExpectedVerifyEvents
        /\ Len(proof_transcript.log) > 1 =>
             /\ AbsorbsC_e(proof_transcript.log, 2)
             /\ \A i \in 4..Len(proof_transcript.log) : proof_transcript.log[i].label # "c_e"
        /\ (result.verify # "not started" /\ Len(verification_transcript.log) > 1) =>
             /\ AbsorbsC_e(verification_transcript.log, 2)
             /\ \A i \in 4..Len(verification_transcript.log) :
                    verification_transcript.log[i].label # "c_e"

\* a membership run in which prove and verify have both made all nine calls
C8_Witness ==
    /\ mode = "membership" /\ Done /\ result.verify = "Ok"
    /\ Len(ProveEvents) = 9 /\ Len(VerifyEvents) = 9
    /\ Len(events) = 18

\* the operations a step has added to a transcript
NewEntries(t, t2) == SubSeq(t2.log, Len(t.log) + 1, Len(t2.log))

PointBytes(f, v, curve_fields) ==
    IF f \in curve_fields THEN to_affine_bytes(v) ELSE elem_to_bytes(v)

\* after the domain separator, one append per field of the message, each
\* under the field's own tag and carrying the field's encoding
FieldsAppended(new, sep, m, curve_fields) ==
    /\ Len(new) = Cardinality(DOMAIN m) + 1
    /\ new[1] = [op |-> "append", label |-> "dom-sep", bytes |-> Ascii(sep)]
    /\ \A f \in DOMAIN m :
         \E i \in 2..Len(new) :
            new[i] = [op |-> "append", label |-> f, bytes |-> PointBytes(f, m[f], curve_fields)]

Sent(sub, op) == events' = Append(events, <<"prove", sub, op>>)

Received(sub, op) == events' = Append(events, <<"verify", sub, op>>)

SentFields(sub, op, m, curve_fields) ==
    Sent(sub, op) =>
        FieldsAppended(NewEntries(proof_transcript, proof_transcript'), sub, m, curve_fields)

ReceivedFields(sub, op, m, curve_fields) ==
    Received(sub, op) =>
        FieldsAppended(NewEntries(verification_transcript, verification_transcript'),
                       sub, m, curve_fields)

\* the sends and receives of commitment messages append their fields
CommitmentMessagesAppended ==
    /\ SentFields("root", "send_message1", unwrap(verifier_channel'.root.message1), {})
    /\ SentFields("root", "send_message2", unwrap(verifier_channel'.root.message2), {})
    /\ SentFields("coprime", "send_message1", unwrap(verifier_channel'.coprime.message1), {})
    /\ SentFields("coprime", "send_message2", unwrap(verifier_channel'.coprime.message2), {})
    /\ SentFields("modeq", "send_message1", unwrap(verifier_channel'.modeq.message1),
                  {"alpha2"})
    /\ ReceivedFields("root", "receive_message1", Proof.proof_root.message1, {})
    /\ ReceivedFields("root", "receive_message2", Proof.proof_root.message2, {})
    /\ ReceivedFields("coprime", "receive_message1", Proof.proof_coprime.message1, {})
    /\ ReceivedFields("coprime", "receive_message2", Proof.proof_coprime.message2, {})
    /\ ReceivedFields("modeq", "receive_message1", Proof.proof_modeq.message1, {"alpha2"})

\* the sends of response messages append their fields
ResponseMessagesAppended ==
    /\ SentFields("root", "send_message3", unwrap(verifier_channel'.root.message3), {})
    /\ SentFields("coprime", "send_message3", unwrap(verifier_channel'.coprime.message3), {})
    /\ SentFields("modeq", "send_message2", unwrap(verifier_channel'.modeq.message2), {})

\* the sends and receives of response messages leave the transcript alone
ResponseMessagesNotAppended ==
    /\ (Sent("root", "send_message3") \/ Sent("coprime", "send_message3")
          \/ Sent("modeq", "send_message2")) => proof_transcript' = proof_transcript
    /\ (Received("root", "receive_message3") \/ Received("coprime", "receive_message3")
          \/ Received("modeq", "receive_message2")) =>
            verification_transcript' = verification_transcript

\* C10 as stated: every send_messageN, the response messages included,
\* appends each field of its message under the field's own tag.
C10_AsStated == [][CommitmentMessagesAppended /\ ResponseMessagesAppended]_vars

\* C10: the sends of the commitment messages (Root M1, M2; Coprime M1, M2;
\* ModEq M1) append each field of the message under its own tag after the
\* domain separator and the matching receives append the same; the response
\* messages (Root M3, Coprime M3, ModEq M2) are stored and returned without
\* any append.
C10_MessageFields == [][CommitmentMessagesAppended /\ ResponseMessagesNotAppended]_vars

\* a coprime run that has stored its M3: the last operations on the proof
\* transcript are the challenge draw, and before it the six fields of M2
C10_Witness ==
    /\ mode = "coprime" /\ pc.phase = "proved"
    /\ is_some(verifier_channel.coprime.message3)
    /\ proof_transcript.log[Len(proof_transcript.log)].op = "challenge"
    /\ proof_transcript.log[Len(proof_transcript.log) - 2].label = "alpha7"
    /\ proof_transcript.log[Len(proof_transcript.log) - 7].label = "alpha2"

(***************************************************************************)
(* Library functions called outside a protocol run: the constructors of    *)
(* Parameters, is_valid, the admission check of the coprime protocol and   *)
(* the challenge functions of the transcript channels.  A state holds one  *)
(* call with its arguments and, once the call has returned, its result.    *)
(***************************************************************************)
MaxSecurityLevel == 256

MaxFieldSizeBits == 40

MaxPrimeBits == 12

MaxSoundnessBits == 24

\* below 3 the subtraction security_level - 3 leaves u16
SecurityLevels == 3..MaxSecurityLevel

FieldSizes == 6..MaxFieldSizeBits

PrimeBits == 1..MaxPrimeBits

\* arguments at the ends of u16
EdgeSecurityLevels == {0, 1, 2, 32767, 32768, u16_MAX}

EdgePrimeBits == {<<0, 0>>, <<0, 3>>, <<3, 0>>, <<u16_MAX, u16_MAX>>}

EdgeParameters ==
    { [ security_level     |-> 7,
        security_zk        |-> z,
        security_soundness |-> s,
        hash_to_prime_bits |-> m,
        field_size_bits    |-> f ] :
      z \in {1, 32766, u16_MAX}, s \in {2, 32766, u16_MAX}, m \in {0, 1, 40000, u16_MAX},
      f \in {0, 14, u16_MAX} }

ParametersValues ==
    { [ security_level     |-> 7,
        security_zk        |-> z,
        security_soundness |-> s,
        hash_to_prime_bits |-> m,
        field_size_bits    |-> f ] :
      z \in {1, 5}, s \in {2, 8}, m \in PrimeBits, f \in {14, 16, 32} }

StandardLevels == {80, 112, 128, 192, 256}

StandardParameters ==
    { [ security_level     |-> l,
        security_zk        |-> l - 3,
        security_soundness |-> l - 2,
        hash_to_prime_bits |-> 2 * l - 2,
        field_size_bits    |-> 2 * l ] : l \in StandardLevels }

\* what G::rsa_modulus() returns: Rsa2048 has a modulus, a class group has none
Moduli == {None, Some(rsa_modulus), Some(23), Some(11)}

SoundnessCRSs ==
    { [parameters |-> [Parameters EXCEPT !.security_soundness = s, !.hash_to_prime_bits = m]] :
      s \in 0..MaxSoundnessBits, m \in {8, 12} }

\* the transcripts a challenge is drawn from: a new one, or one message in
ChallengeTranscripts ==
    UNION { {Transcript_new(p)} \cup { append_integer_point(Transcript_new(p), "c_e", x) : x \in 2..4 } :
            p \in {"root", "coprime", "modeq"} }

(***************************************************************************)
(* The transcript cell shared by the channels (RefCell<Transcript>).       *)
(* borrow: 0 when unused, -1 while mutably borrowed, n > 0 with n readers. *)
(***************************************************************************)
try_borrow_mut(cell) ==
    IF cell.borrow = 0 THEN <<"Ok", cell.value>> ELSE <<"BorrowMutError">>

SampleRootProof ==
    [ message1 |-> [c_w |-> 2, c_r |-> 3],
      message2 |-> [alpha1 |-> 4, alpha2 |-> 5, alpha3 |-> 6, alpha4 |-> 7],
      message3 |-> [s_e |-> 1, s_r |-> 2, s_r_2 |-> 3, s_r_3 |-> 4, s_beta |-> 5, s_delta |-> 6] ]

SampleModEqMessage1 == [alpha1 |-> 4, alpha2 |-> 9]

\* the body of a channel operation after the borrow: the transcript, the
\* channel and the value it returns
ChannelOperation(c, t) ==
    CASE c.protocol = "root" /\ c.op = "send_message1" ->
           Root_send_message1(t, Root_channel_new, SampleRootProof.message1)
      [] c.protocol = "root" /\ c.op = "send_message2" ->
           Root_send_message2(t, Root_channel_new, SampleRootProof.message2)
      [] c.protocol = "root" /\ c.op = "receive_challenge" ->
           Root_receive_challenge(t, c.crs)
      [] c.protocol = "root" /\ c.op = "receive_message1" ->
           Root_receive_message1(t, SampleRootProof)
      [] c.protocol = "root" /\ c.op = "receive_message2" ->
           Root_receive_message2(t, SampleRootProof)
      [] c.protocol = "root" /\ c.op = "generate_and_send_challenge" ->
           Root_generate_and_send_challenge(t, c.crs)
      [] c.protocol = "modeq" /\ c.op = "send_message1" ->
           ModEq_send_message1(t, ModEq_channel_new, SampleModEqMessage1)
      [] c.protocol = "membership" /\ c.op = "send_c_e" ->
           Membership_send_c_e(t, Membership_channel_new, 5)

ChannelBefore(c) ==
    CASE c.protocol = "root"       -> Root_channel_new
      [] c.protocol = "modeq"      -> ModEq_channel_new
      [] c.protocol = "membership" -> Membership_channel_new

\* fault: the operation runs without asking for the borrow
TranscriptChannel_operation_unguarded(c) ==
    LET r == ChannelOperation(c, c.cell.value)
    IN  [ result  |-> <<"Ok">>,
          cell    |-> [c.cell EXCEPT !.value = r.transcript],
          channel |-> IF "channel" \in DOMAIN r THEN r.channel ELSE ChannelBefore(c) ]

\* let mut transcript = self.transcript.try_borrow_mut()?; then the body
TranscriptChannel_operation(c) ==
    LET b == try_borrow_mut(c.cell)
    IN  IF b[1] # "Ok"
        THEN [result |-> <<"CouldNotBorrowMut">>, cell |-> c.cell, channel |-> ChannelBefore(c)]
        ELSE LET r == ChannelOperation(c, b[2])
             IN  [ result  |-> <<"Ok">>,
                   cell    |-> [c.cell EXCEPT !.value = r.transcript],
                   channel |-> IF "channel" \in DOMAIN r THEN r.channel ELSE ChannelBefore(c) ]

ChannelOperations ==
    { <<"root", op>> : op \in {"send_message1", "send_message2", "receive_challenge",
                               "receive_message1", "receive_message2",
                               "generate_and_send_challenge"} }
    \cup {<<"modeq", "send_message1">>, <<"membership", "send_c_e">>}

ChannelCalls ==
    { [fn |-> "channel_operation", protocol |-> o[1], op |-> o[2],
       cell |-> [value |-> t, borrow |-> b], crs |-> [parameters |-> Parameters]] :
      o \in ChannelOperations, t \in ChallengeTranscripts, b \in {-1, 0, 1} }

\* values and randomness committed to and opened with: small ones, a
\* negative one, and ones past the order of either group
OpenValues == {-5, 2, 5, 9, 2 + group_order, 2 + ScalarFieldModulus}

OpenRandomness == {0, 1, 5, 1 + group_order}

CommitmentSchemes ==
    { [scheme |-> "integer", parameters |-> c.integer_commitment_parameters] : c \in CRSs }
    \cup { [scheme |-> "pedersen", parameters |-> c.pedersen_commitment_parameters] : c \in CRSs }

CommitmentCalls ==
    { [fn |-> "open", commitment |-> k, value |-> v, randomness |-> r,
       opened_value |-> v2, opened_randomness |-> r2] :
      k \in CommitmentSchemes, v \in OpenValues, r \in OpenRandomness,
      v2 \in OpenValues, r2 \in OpenRandomness }

Commitment_commit(k, value, randomness) ==
    IF k.scheme = "integer"
    THEN IntegerCommitment_commit(k.parameters, value, randomness)
    ELSE PedersenCommitment_commit(k.parameters, value, randomness)

Commitment_open(k, commitment, value, randomness) ==
    IF k.scheme = "integer"
    THEN IntegerCommitment_open(k.parameters, commitment, value, randomness)
    ELSE PedersenCommitment_open(k.parameters, commitment, value, randomness)

\* inputs of the Blake2s hash_to_prime: inside the message size, between it
\* and q, and from q on
HashedValues ==
    {0, 1, 2, 3, 100, u_pow_u(2, MESSAGE_SIZE) - 1, u_pow_u(2, MESSAGE_SIZE), 5000,
     ScalarFieldModulus - 1, ScalarFieldModulus, ScalarFieldModulus + 3,
     ScalarFieldModulus + u_pow_u(2, MESSAGE_SIZE)}

HashCRSs ==
    { [parameters |-> [Parameters EXCEPT !.security_level = l, !.hash_to_prime_bits = m]] :
      l \in {1, 2}, m \in {1, 3, 4, 12} }

HashCalls == { [fn |-> "hash_to_prime", crs |-> c, e |-> e] : c \in HashCRSs, e \in HashedValues }

(***************************************************************************)
(* Setup of the composite protocols.  The draws of the two random number   *)
(* generators and the outcome of the SNARK parameter generation are the    *)
(* inputs.                                                                 *)
(***************************************************************************)
\* g = elem(draw below N/2), h = g^x
IntegerCommitment_setup(draw) == IntegerCommitment_new(draw[1], G_exp(draw[1], draw[2]))

PedersenCommitment_setup(draw) == [g |-> draw[1], h |-> draw[2]]

\* HP::setup: generate_random_parameters over (base_one, g, h), or its error
HashToPrime_setup(generated, pedersen_commitment_parameters, parameters) ==
    IF generated[1] = "Ok"
    THEN <<"Ok", [link_base_one |-> generated[2]]>>
    ELSE <<"SetupError">>

\* fault: crs_modeq gets generators of its own
Membership_setup_own_generators(parameters, draw1, draw2, generated) ==
    LET integer_commitment_parameters == IntegerCommitment_setup(draw1)
        pedersen_commitment_parameters == PedersenCommitment_setup(draw2)
        hash_to_prime_parameters ==
            HashToPrime_setup(generated, pedersen_commitment_parameters, parameters)
    IN  IF hash_to_prime_parameters[1] # "Ok"
        THEN hash_to_prime_parameters
        ELSE <<"Ok", [crs |->
               [ parameters |-> parameters,
                 crs_modeq |->
                   [ parameters |-> parameters,
                     integer_commitment_parameters |->
                         IntegerCommitment_setup(<<draw1[1], draw1[2] + 1>>),
                     pedersen_commitment_parameters |-> pedersen_commitment_parameters ],
                 crs_root |->
                   [ parameters |-> parameters,
                     integer_commitment_parameters |-> integer_commitment_parameters ],
                 crs_hash_to_prime |->
                   [ parameters |-> parameters,
                     pedersen_commitment_parameters |-> pedersen_commitment_parameters,
                     hash_to_prime_parameters |-> hash_to_prime_parameters[2] ] ]]>>

Membership_setup(parameters, draw1, draw2, generated) ==
    LET integer_commitment_parameters == IntegerCommitment_setup(draw1)
        pedersen_commitment_parameters == PedersenCommitment_setup(draw2)
        hash_to_prime_parameters ==
            HashToPrime_setup(generated, pedersen_commitment_parameters, parameters)
    IN  IF hash_to_prime_parameters[1] # "Ok"
        THEN hash_to_prime_parameters
        ELSE <<"Ok", [crs |->
               [ parameters |-> parameters,
                 crs_modeq |->
                   [ parameters |-> parameters,
                     integer_commitment_parameters |-> integer_commitment_parameters,
                     pedersen_commitment_parameters |-> pedersen_commitment_parameters ],
                 crs_root |->
                   [ parameters |-> parameters,
                     integer_commitment_parameters |-> integer_commitment_parameters ],
                 crs_hash_to_prime |->
                   [ parameters |-> parameters,
                     pedersen_commitment_parameters |-> pedersen_commitment_parameters,
                     hash_to_prime_parameters |-> hash_to_prime_parameters[2] ] ]]>>

NonMembership_setup(parameters, draw1, draw2, generated) ==
    LET integer_commitment_parameters == IntegerCommitment_setup(draw1)
        pedersen_commitment_parameters == PedersenCommitment_setup(draw2)
        hash_to_prime_parameters ==
            HashToPrime_setup(generated, pedersen_commitment_parameters, parameters)
    IN  IF hash_to_prime_parameters[1] # "Ok"
        THEN hash_to_prime_parameters
        ELSE <<"Ok", [crs |->
               [ parameters |-> parameters,
                 crs_modeq |->
                   [ parameters |-> parameters,
                     integer_commitment_parameters |-> integer_commitment_parameters,
                     pedersen_commitment_parameters |-> pedersen_commitment_parameters ],
                 crs_coprime |->
                   [ parameters |-> parameters,
                     integer_commitment_parameters |-> integer_commitment_parameters ],
                 crs_hash_to_prime |->
                   [ parameters |-> parameters,
                     pedersen_commitment_parameters |-> pedersen_commitment_parameters,
                     hash_to_prime_parameters |-> hash_to_prime_parameters[2] ] ]]>>

PedersenDraws == {<<1, 7>>, <<3, 11>>}

SetupCalls ==
    { [fn |-> "setup", protocol |-> p, parameters |-> ps, draw1 |-> d1, draw2 |-> d2,
       generated |-> gen] :
      p \in {"membership", "nonmembership"},
      ps \in {Parameters, [Parameters EXCEPT !.security_zk = 2]},
      d1 \in SetupDraws, d2 \in PedersenDraws,
      gen \in {<<"Ok", 5>>, <<"Ok", 6>>, <<"SNARKError">>} }

\* integers below 0, inside [0, q) and from q on, and byte strings with and
\* without leading zero bytes
RoundTripIntegers ==
    {0 - ScalarFieldModulus - 5, 0 - 5, 0 - 1, 0, 1, 255, 256, 5000, ScalarFieldModulus - 1,
     ScalarFieldModulus, ScalarFieldModulus + 3, 2 * ScalarFieldModulus + 7}

RoundTripBytes ==
    UNION { [1..n -> {0, 1, 127, 128, 255}] : n \in 0..2 } \cup {<<1, 2, 3>>, <<0, 0, 200>>}

RoundTripCalls ==
    { [fn |-> "integer_round_trip", x |-> x] : x \in RoundTripIntegers }
    \cup { [fn |-> "bytes_round_trip", bytes |-> b] : b \in RoundTripBytes }

Calls ==
    { [fn |-> "from_security_level", security_level |-> l] : l \in SecurityLevels }
    \cup { [fn |-> "from_curve", P_size_in_bits |-> f] : f \in FieldSizes }
    \cup { [fn |-> "from_curve_and_small_prime_size", P_size_in_bits |-> f,
            prime_bits_min |-> lo, prime_bits_max |-> hi] :
            f \in FieldSizes, lo \in PrimeBits, hi \in PrimeBits }
    \cup { [fn |-> "is_valid", self |-> p] : p \in ParametersValues \cup StandardParameters }
    \cup { [fn |-> "Coprime_from_crs", modulus |-> n, crs |-> c] :
            n \in Moduli, c \in SoundnessCRSs }
    \cup { [fn |-> f, protocol |-> p, transcript |-> t, crs |-> c] :
            f \in {"receive_challenge", "generate_and_send_challenge"},
            p \in {"root", "coprime", "modeq"},
            t \in ChallengeTranscripts, c \in SoundnessCRSs }
    \cup ChannelCalls
    \cup CommitmentCalls
    \cup HashCalls
    \cup SetupCalls
    \cup RoundTripCalls
    \cup { [fn |-> "ModEq_from_crs",
            crs |-> [parameters |-> [Parameters EXCEPT !.field_size_bits = f]]] :
            f \in FieldSizes }

\* no protocol run is under way
NoRun ==
    /\ mode = "none"
    /\ crs = <<>> /\ statement = <<>> /\ witness = <<>> /\ order = <<>>
    /\ rng1 = <<>>
    /\ proof_transcript = <<>> /\ verifier_channel = <<>>
    /\ verification_transcript = <<>> /\ prover_channel = <<>>
    /\ prover = <<>> /\ verifier = <<>>
    /\ pc = [phase |-> "done", idx |-> 0, step |-> 0]
    /\ events = <<>>
    /\ result = [prove |-> "not started", verify |-> "not started"]

run == <<inputs, prove_side, verify_side, pc, events, result>>

InitCalls ==
    /\ NoRun
    /\ call \in Calls
    /\ ret = None

Returns(value) ==
    /\ ret = None
    /\ ret' = Some(value)
    /\ UNCHANGED <<run, call>>

Call_from_security_level ==
    /\ call.fn = "from_security_level"
    /\ \E overflow_checks \in BOOLEAN :
           Returns(from_security_level(overflow_checks, call.security_level))

Call_from_curve ==
    /\ call.fn = "from_curve"
    /\ \E overflow_checks \in BOOLEAN :
           Returns(from_curve(overflow_checks, call.P_size_in_bits))

Call_from_curve_and_small_prime_size ==
    /\ call.fn = "from_curve_and_small_prime_size"
    /\ \E overflow_checks \in BOOLEAN :
           Returns(from_curve_and_small_prime_size(overflow_checks, call.P_size_in_bits,
                                                   call.prime_bits_min, call.prime_bits_max))

Call_is_valid ==
    /\ call.fn = "is_valid"
    /\ \E overflow_checks \in BOOLEAN : Returns(is_valid(overflow_checks, call.self))

Call_Coprime_from_crs ==
    /\ call.fn = "Coprime_from_crs"
    /\ Returns(Coprime_from_crs_in(call.modulus, call.crs))

Call_receive_challenge ==
    /\ call.fn = "receive_challenge"
    /\ Returns(CASE call.protocol = "root"    -> Root_receive_challenge(call.transcript, call.crs)
                 [] call.protocol = "coprime" -> Coprime_receive_challenge(call.transcript, call.crs)
                 [] call.protocol = "modeq"   -> ModEq_receive_challenge(call.transcript, call.crs))

Call_generate_and_send_challenge ==
    /\ call.fn = "generate_and_send_challenge"
    /\ Returns(CASE call.protocol = "root" ->
                        Root_generate_and_send_challenge(call.transcript, call.crs)
                 [] call.protocol = "coprime" ->
                        Coprime_generate_and_send_challenge(call.transcript, call.crs)
                 [] call.protocol = "modeq" ->
                        ModEq_generate_and_send_challenge(call.transcript, call.crs))

Call_channel_operation ==
    /\ call.fn = "channel_operation"
    /\ Returns(TranscriptChannel_operation(call))

\* commit, then open the commitment with the second pair
Call_open ==
    /\ call.fn = "open"
    /\ \E c \in {Commitment_commit(call.commitment, call.value, call.randomness)} :
          Returns([ committed |-> <<"Ok", c>>, commitment |-> c,
                    opened |-> Commitment_open(call.commitment, c, call.opened_value,
                                               call.opened_randomness) ])

Call_hash_to_prime ==
    /\ call.fn = "hash_to_prime"
    /\ \E r \in {SnarkHash_hash_to_prime(call.crs, call.e)} : Returns(r)

Call_ModEq_from_crs ==
    /\ call.fn = "ModEq_from_crs"
    /\ Returns(ModEq_from_crs(call.crs))

Call_setup ==
    /\ call.fn = "setup"
    /\ Returns(IF call.protocol = "membership"
               THEN Membership_setup(call.parameters, call.draw1, call.draw2, call.generated)
               ELSE NonMembership_setup(call.parameters, call.draw1, call.draw2,
                                        call.generated))

\* x mod q to BigInt and back, as test_back_and_forth does for one integer
Call_integer_round_trip ==
    /\ call.fn = "integer_round_trip"
    /\ \E reduced \in {integer_mod_q(call.x)} :
           Returns([reduced |-> reduced,
                    back |-> bigint_to_integer(integer_to_bigint(reduced))])

\* bytes to bits and back
Call_bytes_round_trip ==
    /\ call.fn = "bytes_round_trip"
    /\ \E bits \in {bytes_big_endian_to_bits_big_endian(call.bytes)} :
           Returns([bits |-> bits, back |-> bits_big_endian_to_bytes_big_endian(bits)])

NextCalls ==
    \/ Call_from_security_level
    \/ Call_from_curve
    \/ Call_from_curve_and_small_prime_size
    \/ Call_is_valid
    \/ Call_Coprime_from_crs
    \/ Call_receive_challenge
    \/ Call_generate_and_send_challenge
    \/ Call_channel_operation
    \/ Call_open
    \/ Call_hash_to_prime
    \/ Call_ModEq_from_crs
    \/ Call_setup
    \/ Call_integer_round_trip
    \/ Call_bytes_round_trip

SpecCalls == InitCalls /\ [][NextCalls]_vars

(***************************************************************************)
(* The constructors of Parameters and is_valid over the whole of u16: the  *)
(* arguments of the calls above, and those at the ends of u16.             *)
(***************************************************************************)
EdgeCalls ==
    { [fn |-> "from_security_level", security_level |-> l] :
      l \in (0..MaxSecurityLevel) \cup EdgeSecurityLevels }
    \cup { [fn |-> "from_curve_and_small_prime_size", P_size_in_bits |-> size_in_bits,
            prime_bits_min |-> e[1], prime_bits_max |-> e[2]] :
            e \in EdgePrimeBits \cup (PrimeBits \X {MaxPrimeBits}) }
    \cup { [fn |-> "is_valid", self |-> p] : p \in StandardParameters \cup EdgeParameters }

InitEdge ==
    /\ NoRun
    /\ call \in EdgeCalls
    /\ ret = None

NextEdge ==
    \/ Call_from_security_level
    \/ Call_from_curve_and_small_prime_size
    \/ Call_is_valid

SpecEdge == InitEdge /\ [][NextEdge]_vars

Returned(fn) == call.fn = fn /\ is_some(ret)

IsOk(r) == r[1] = "Ok"

\* the Parameters inside the Ok of a constructor
ReturnedParameters ==
    IF call.fn = "from_security_level" THEN unwrap(ret)[2] ELSE unwrap(ret)[2].parameters

CeilDiv(a, b) == (a + b - 1) \div b

\* d * mu + 2 <= nu with d = 1 + ceil((lambda_z + lambda_s + 2) / mu)
ValidityInequality(p) ==
    (1 + CeilDiv(p.security_zk + p.security_soundness + 2, p.hash_to_prime_bits))
        * p.hash_to_prime_bits + 2 <= p.field_size_bits

\* the Parameters from_security_level and from_curve hand to is_valid
Candidate ==
    LET l == IF call.fn = "from_security_level" THEN call.security_level
             ELSE call.P_size_in_bits \div 2
    IN  [ security_level     |-> l,
          security_zk        |-> l - 3,
          security_soundness |-> l - 2,
          hash_to_prime_bits |-> 2 * l - 2,
          field_size_bits    |-> IF call.fn = "from_security_level" THEN 2 * l
                                 ELSE call.P_size_in_bits ]

Constructors == {"from_security_level", "from_curve", "from_curve_and_small_prime_size"}

\* C15: Parameter validity invariant.  Every Parameters that
\* from_security_level, from_curve or from_curve_and_small_prime_size returns
\* in Ok satisfies d * mu + 2 <= nu with d = 1 + ceil((lambda_z + lambda_s +
\* 2) / mu), and a constructor or is_valid returns InvalidParameters exactly
\* when the Parameters it examines violate the inequality.
C15_ParameterValidity ==
    /\ (call.fn \in Constructors /\ is_some(ret) /\ IsOk(unwrap(ret))) =>
           ValidityInequality(ReturnedParameters)
    /\ (call.fn \in {"from_security_level", "from_curve"} /\ is_some(ret)) =>
           (IsOk(unwrap(ret)) <=> ValidityInequality(Candidate))
    /\ Returned("is_valid") =>
           ((unwrap(ret) = "Ok") <=> ValidityInequality(call.self))

\* C16: Permitted parameter derivations.  For each security level in {80,
\* 112, 128, 192, 256} from_security_level returns Ok with lambda_z =
\* lambda - 3, lambda_s = lambda - 2, nu = 2 lambda and mu = 2 lambda - 2
\* (for 128: mu = 254, nu = 256, lambda_s = 126, lambda_z = 125), and
\* is_valid returns Ok on these Parameters.
C16_StandardLevels ==
    /\ (Returned("from_security_level") /\ call.security_level \in StandardLevels) =>
           /\ IsOk(unwrap(ret))
           /\ ReturnedParameters.security_level = call.security_level
           /\ ReturnedParameters.security_zk = call.security_level - 3
           /\ ReturnedParameters.security_soundness = call.security_level - 2
           /\ ReturnedParameters.field_size_bits = 2 * call.security_level
           /\ ReturnedParameters.hash_to_prime_bits = 2 * call.security_level - 2
    /\ (Returned("from_security_level") /\ call.security_level = 128) =>
           /\ ReturnedParameters.hash_to_prime_bits = 254
           /\ ReturnedParameters.field_size_bits = 256
           /\ ReturnedParameters.security_soundness = 126
           /\ ReturnedParameters.security_zk = 125
    /\ (Returned("is_valid") /\ call.self \in StandardParameters) => unwrap(ret) = "Ok"

C16_Witness ==
    /\ Returned("from_security_level") /\ call.security_level = 128
    /\ IsOk(unwrap(ret)) /\ ReturnedParameters.hash_to_prime_bits = 254

\* the margins of the search and the condition tested on a pair (c, mu)
Margins == 0..(call.P_size_in_bits \div 2 - 1)

PrimeSizes == call.prime_bits_min..call.prime_bits_max

GridCondition(c, mu) ==
    /\ mu <= 2 * (call.P_size_in_bits \div 2) - 2 - c
    /\ (2 * (call.P_size_in_bits \div 2) - 2 - c) % mu >= mu - c

Feasible == { mu \in PrimeSizes : \E c \in Margins : GridCondition(c, mu) }

Least(S) == CHOOSE x \in S : \A y \in S : x <= y

\* C17: Small-prime search.  from_curve_and_small_prime_size returns the
\* smallest mu in [mu_min, mu_max] for which some margin c satisfies the
\* search condition, so that no smaller mu' of the interval satisfies it for
\* any c in [0, lambda), and returns InvalidParameters when no pair (c, mu)
\* satisfies it.
C17_AsStated ==
    Returned("from_curve_and_small_prime_size") =>
        /\ IsOk(unwrap(ret)) =>
               /\ Feasible # {}
               /\ ReturnedParameters.hash_to_prime_bits = Least(Feasible)
        /\ (Feasible = {}) => ~IsOk(unwrap(ret))

\* the smallest margin some prime size satisfies the condition with
LeastMargin == Least({ c \in Margins : \E mu \in PrimeSizes : GridCondition(c, mu) })

\* C17: Small-prime search, as the code behaves.  A value returned in Ok
\* carries the smallest margin c for which some mu of the interval satisfies
\* the condition, and the smallest such mu for that margin; the result is
\* InvalidParameters when no pair (c, mu) satisfies the condition.
C17_SmallestMarginFirst ==
    Returned("from_curve_and_small_prime_size") =>
        /\ IsOk(unwrap(ret)) =>
               /\ Feasible # {}
               /\ ReturnedParameters.hash_to_prime_bits =
                      Least({ mu \in PrimeSizes : GridCondition(LeastMargin, mu) })
               /\ ReturnedParameters.security_soundness =
                      (2 * (call.P_size_in_bits \div 2) - 4 - LeastMargin) \div 2
               /\ ReturnedParameters.security_zk = ReturnedParameters.security_soundness
        /\ (Feasible = {}) => ~IsOk(unwrap(ret))

\* the search returned a prime size although a smaller one is feasible
C17_Witness ==
    /\ Returned("from_curve_and_small_prime_size") /\ IsOk(unwrap(ret))
    /\ ReturnedParameters.hash_to_prime_bits > Least(Feasible)

\* C18: Coprime admission check.  from_crs fails with InvalidParameters if
\* lambda_s + 1 >= mu, if lambda_s is at least half the size in bits of the
\* RSA modulus, and for every group without an RSA modulus; otherwise it
\* returns the protocol.
C18_AdmissionCheck ==
    Returned("Coprime_from_crs") =>
        ((unwrap(ret) = "InvalidParameters") <=>
            \/ ~is_some(call.modulus)
            \/ call.crs.parameters.security_soundness + 1 >= call.crs.parameters.hash_to_prime_bits
            \/ call.crs.parameters.security_soundness >= BitLength(unwrap(call.modulus)) \div 2)

ChallengeCall == call.fn \in {"receive_challenge", "generate_and_send_challenge"}

\* the entries the call added to the log of its transcript
CallEntries ==
    SubSeq(unwrap(ret).transcript.log, Len(call.transcript.log) + 1,
           Len(unwrap(ret).transcript.log))

ChallengeEntries(n) ==
    << [op |-> "append", label |-> "dom-sep", bytes |-> Ascii(call.protocol)],
       [op |-> "challenge", label |-> "c", bytes |-> <<n>>] >>

\* C11: Challenge derivation.  receive_challenge and
\* generate_and_send_challenge first append the domain separator of the
\* sub-protocol and then request exactly ceil(lambda_s / 8) bytes from the
\* transcript, whatever lambda_s is.
C11_AsStated ==
    (ChallengeCall /\ is_some(ret)) =>
        /\ IsPrefix(call.transcript.log, unwrap(ret).transcript.log)
        /\ CallEntries = ChallengeEntries(CeilDiv(call.crs.parameters.security_soundness, 8))

\* C11: Challenge derivation, as the code behaves.  The two functions first
\* append the domain separator of the sub-protocol and then request exactly
\* floor(lambda_s / 8) bytes from the transcript, whatever lambda_s is.
C11_ChallengeDerivation ==
    (ChallengeCall /\ is_some(ret)) =>
        /\ IsPrefix(call.transcript.log, unwrap(ret).transcript.log)
        /\ CallEntries = ChallengeEntries(call.crs.parameters.security_soundness \div 8)

\* a challenge was drawn for a lambda_s that is no whole number of bytes
C11_Witness ==
    /\ ChallengeCall /\ is_some(ret)
    /\ call.crs.parameters.security_soundness = 12
    /\ CallEntries = ChallengeEntries(1)

\* the bytes the transcript handed out for the challenge of the call
RequestedBytes ==
    challenge_bytes(append_message(call.transcript, "dom-sep", Ascii(call.protocol)), "c",
                    CallEntries[Len(CallEntries)].bytes[1]).buf

\* the number a byte string denotes, most significant byte first
RECURSIVE BigEndian(_)
BigEndian(bytes) ==
    IF Len(bytes) = 0 THEN 0
    ELSE bytes[Len(bytes)] + 256 * BigEndian(SubSeq(bytes, 1, Len(bytes) - 1))

\* C12: Challenge length.  Every challenge is the big-endian reading of the
\* bytes requested, and it satisfies 0 <= c < 2^lambda_s for every lambda_s,
\* the ones that are no multiple of 8 included.
C12_ChallengeLength ==
    (ChallengeCall /\ is_some(ret)) =>
        /\ unwrap(ret).value = BigEndian(RequestedBytes)
        /\ 0 <= unwrap(ret).value
        /\ unwrap(ret).value < u_pow_u(2, call.crs.parameters.security_soundness)

\* a two-byte challenge for lambda_s = 21 whose bytes differ
C12_Witness ==
    /\ ChallengeCall /\ is_some(ret)
    /\ call.crs.parameters.security_soundness = 21
    /\ Len(RequestedBytes) = 2 /\ RequestedBytes[1] # RequestedBytes[2]
    /\ unwrap(ret).value = 256 * RequestedBytes[1] + RequestedBytes[2]

\* the response s_e the root or the coprime prover has stored in its channel
Stored_s_e(sub) ==
    IF sub \in DOMAIN verifier_channel /\ is_some(verifier_channel[sub].message3)
    THEN Some(unwrap(verifier_channel[sub].message3).s_e)
    ELSE None

\* the element the root and the coprime prover work on
ProverElement == IF IsComposite(mode) THEN prover.hashed_e ELSE witness.e

ResponseBound ==
    u_pow_u(2, crs.parameters.security_zk + crs.parameters.security_soundness
                 + crs.parameters.hash_to_prime_bits + 1)

\* C13: Response-size completeness bound.  In every honest Root or Coprime
\* proof, where r_e lies between -2^(lambda_z + lambda_s + mu) and
\* 2^(lambda_z + lambda_s + mu), the challenge c in [0, 2^lambda_s) and e in
\* [0, 2^mu), the response s_e = r_e - c e has an absolute value of at most
\* 2^(lambda_z + lambda_s + mu + 1).
C13_ResponseBound ==
    /\ \A sub \in {"root", "coprime"} :
           (mode # "none" /\ is_some(Stored_s_e(sub))
              /\ 0 <= ProverElement
              /\ ProverElement < u_pow_u(2, crs.parameters.hash_to_prime_bits)) =>
               /\ unwrap(Stored_s_e(sub)) <= ResponseBound
               /\ unwrap(Stored_s_e(sub)) >= 0 - ResponseBound
    /\ (Proving("root", 4) \/ Proving("coprime", 4)) =>
           /\ prover.l.r_e >= 0 - u_pow_u(2, crs.parameters.security_zk
                    + crs.parameters.security_soundness + crs.parameters.hash_to_prime_bits)
           /\ prover.l.r_e <= u_pow_u(2, crs.parameters.security_zk
                    + crs.parameters.security_soundness + crs.parameters.hash_to_prime_bits)
           /\ prover.l.c >= 0
           /\ prover.l.c < u_pow_u(2, crs.parameters.security_soundness)

\* a root and a coprime response below -2^(lambda_z + lambda_s + mu): r_e at
\* the lower end of its range and c e > 0
C13_Witness ==
    \E sub \in {"root", "coprime"} :
        /\ mode = sub /\ is_some(Stored_s_e(sub))
        /\ ProverElement < u_pow_u(2, crs.parameters.hash_to_prime_bits)
        /\ unwrap(Stored_s_e(sub)) < 0 - (ResponseBound \div 2)

(***************************************************************************)
(* Runs with a faulty prover: a coprime or non-membership prover whose     *)
(* witness does not satisfy d^e acc^b = g, and a root or coprime proof     *)
(* whose s_e was replaced before it is handed to verify.                   *)
(***************************************************************************)
\* the witness with the Bezout coefficient b replaced by b + 1
InconsistentInstances(m, c) ==
    { [statement |-> i.statement, witness |-> [i.witness EXCEPT !.b = @ + 1]] :
      i \in Instances(m, c) }

\* Root instances whose witness holds another w: w^e # acc, while C_e is
\* still the commitment to (e, r)
WrongRootInstances(c) ==
    { i \in { [statement |-> j.statement, witness |-> [j.witness EXCEPT !.w = w]] :
               j \in RootInstances(c), w \in AccWitnesses \cup {39} } :
        G_exp(i.witness.w, i.witness.e) # i.statement.acc }

\* a CRS the coprime protocol refuses (lambda_s + 1 >= mu), and one whose
\* field_size_bits is below the size of the scalar field
RefusedCRS(c) == [c EXCEPT !.parameters.hash_to_prime_bits = 9]

SmallFieldCRS(c) == [c EXCEPT !.parameters.field_size_bits = size_in_bits - 1]

\* a CRS set up for the Blake2s hash-to-prime protocol
SnarkHashCRS(c) ==
    [c EXCEPT !.hash_to_prime_parameters =
                  [link_base_one |-> @.link_base_one, circuit |-> "HashToPrimeHashCircuit"]]

\* instances whose element is wider than the message of the Blake2s hash;
\* runs on a SnarkHashCRS are started on these only, the proving of the
\* Blake2s circuit not being part of the model
WideInstances(m, c) ==
    { [statement |-> i.statement, witness |-> [i.witness EXCEPT !.e = e]] :
      i \in Instances(m, c), e \in {u_pow_u(2, MESSAGE_SIZE), ScalarFieldModulus - 1} }

InitFaulty ==
    \/ Init
    \/ \E m \in {"coprime", "nonmembership"}, c \in CRSs, tape \in Tapes :
           \E i \in InconsistentInstances(m, c) : InitRun(m, c, i, ProveOrder(m), tape)
    \/ \E c \in CRSs, tape \in Tapes :
           \/ \E i \in Instances("nonmembership", c) :
                  InitRun("nonmembership", RefusedCRS(c), i, ProveOrder("nonmembership"), tape)
           \/ \E i \in Instances("membership", c) :
                  InitRun("membership", SmallFieldCRS(c), i, ProveOrder("membership"), tape)
    \/ \E c \in CRSs, tape \in Tapes :
           \E i \in WrongRootInstances(c) : InitRun("root", c, i, ProveOrder("root"), tape)
    \/ \E m \in {"membership", "nonmembership"}, c \in CRSs, tape \in Tapes :
           \E i \in WideInstances(m, c) : InitRun(m, SnarkHashCRS(c), i, ProveOrder(m), tape)

\* a multiple of the group order wider than the interval verify admits for
\* s_e: adding it to an exponent changes no power
ForgedShift == group_order * ((2 * s_e_expected_right(crs)) \div group_order + 1)

Forge(proof, shift) ==
    IF mode = "root"
    THEN [proof EXCEPT !.proof_root.message3.s_e = @ + shift]
    ELSE [proof EXCEPT !.proof_coprime.message3.s_e = @ + shift]

\* the prover channel is built from a proof that differs from the one the
\* prover computed in s_e only
TranscriptProverChannel_new_forged ==
    /\ pc.phase = "proved" /\ mode \in {"root", "coprime"}
    /\ \E proof \in {VerifierChannel_proof(mode, verifier_channel)} :
       \E shift \in {ForgedShift, 0 - ForgedShift} :
           /\ is_some(proof)
           /\ prover_channel' = [proof |-> Some(Forge(unwrap(proof), shift))]
    /\ verification_transcript' = Transcript_new(mode)
    /\ pc' = [phase |-> "verify", idx |-> 1, step |-> 1]
    /\ result' = [result EXCEPT !.prove = "Ok", !.verify = "running"]
    /\ UNCHANGED <<inputs, library, prove_side, verifier, events>>

\* the C_e_q the prover's witness commits to
Prover_c_e_q ==
    PedersenCommitment_commit(crs.pedersen_commitment_parameters,
                              integer_mod_q(witness.e), witness.r_q)

\* other values of C_e_q: the same value under the randomness 10, and the
\* commitment with its lowest bit flipped
OtherCommitments ==
    { PedersenCommitment_commit(crs.pedersen_commitment_parameters,
                                integer_mod_q(witness.e), 10),
      IF statement.c_e_q % 2 = 0 THEN statement.c_e_q + 1 ELSE statement.c_e_q - 1 }

\* verify is run on the proof of the prover, against a statement whose
\* C_e_q is another one
Verify_other_statement ==
    /\ pc.phase = "proved" /\ mode \in {"modeq", "membership"}
    /\ \E proof \in {VerifierChannel_proof(mode, verifier_channel)} :
           /\ is_some(proof)
           /\ prover_channel' = [proof |-> proof]
    /\ \E c_e_q \in OtherCommitments \ {statement.c_e_q} :
           statement' = [statement EXCEPT !.c_e_q = c_e_q]
    /\ verification_transcript' = Transcript_new(mode)
    /\ pc' = [phase |-> "verify", idx |-> IF IsComposite(mode) THEN 0 ELSE 1, step |-> 1]
    /\ result' = [result EXCEPT !.prove = "Ok", !.verify = "running"]
    /\ UNCHANGED <<mode, crs, witness, order, library, prove_side, verifier, events>>

NextFaulty == Next \/ TranscriptProverChannel_new_forged \/ Verify_other_statement

SpecFaulty == InitFaulty /\ [][NextFaulty]_vars

\* the s_e of the proof handed to verify
Proof_s_e ==
    IF mode = "root" THEN Proof.proof_root.message3.s_e ELSE Proof.proof_coprime.message3.s_e

\* the verification equations of the proof handed to verify, without the
\* range check
EquationsHold ==
    IF mode = "root"
    THEN LET p        == Proof.proof_root
             expected == Root_expected(crs, statement, p.message1, LastChallenge, p.message3)
         IN  /\ expected.alpha1 = p.message2.alpha1
             /\ expected.alpha2 = p.message2.alpha2
             /\ expected.alpha3 = p.message2.alpha3
             /\ expected.alpha4 = p.message2.alpha4
    ELSE LET p        == Proof.proof_coprime
             expected == Coprime_expected(crs, statement, p.message1, LastChallenge, p.message3)
         IN  /\ expected.alpha2 = p.message2.alpha2
             /\ expected.alpha3 = p.message2.alpha3
             /\ expected.alpha4 = p.message2.alpha4
             /\ expected.alpha5 = p.message2.alpha5
             /\ expected.alpha6 = p.message2.alpha6
             /\ expected.alpha7 = p.message2.alpha7

Verified == Done /\ result.verify \in {"Ok", "VerificationFailed"}

\* C14: Response-size range check.  Root.verify and Coprime.verify return
\* VerificationFailed for every proof whose s_e lies outside
\* [-2^(lambda_z + lambda_s + mu + 1), 2^(lambda_z + lambda_s + mu + 1)],
\* even when every verification equation holds.
C14_RangeCheck ==
    (mode \in {"root", "coprime"} /\ Verified
       /\ (Proof_s_e > ResponseBound \/ Proof_s_e < 0 - ResponseBound)) =>
        result.verify = "VerificationFailed"

\* a root and a coprime proof rejected although all its equations hold
C14_Witness ==
    /\ mode \in {"root", "coprime"} /\ Verified
    /\ Proof_s_e > ResponseBound
    /\ EquationsHold
    /\ result.verify = "VerificationFailed"

\* d^e acc^b = g, the relation of the coprime witness
Consistent ==
    G_op(G_exp(witness.d, witness.e),
         G_exp(IF IsComposite(mode) THEN statement.c_p ELSE statement.acc, witness.b))
        = crs.integer_commitment_parameters.g

\* C19: Inconsistent witness.  Coprime proving, and with it non-membership
\* proving, returns CouldNotCreateProof whenever the witness does not satisfy
\* d^e acc^b = g, and produces no proof message.
C19_InconsistentWitness ==
    (mode \in {"coprime", "nonmembership"} /\ ~Consistent) =>
        /\ verifier_channel.coprime.message1 = None
        /\ pc.phase # "prove" => result.prove = "CouldNotCreateProof"

\* C20: Tampering with the witness.  A Coprime proof the prover computed
\* from a witness in which b was replaced by b + 1 is rejected by
\* Coprime.verify with VerificationFailed, whatever the blindings and the
\* challenge are.
C20_AsStated ==
    (mode = "coprime" /\ ~Consistent /\ Verified) => result.verify = "VerificationFailed"

\* C20: Tampering with the witness, as the code behaves.  Such a proof is
\* rejected with VerificationFailed, whatever the blindings are, for every
\* challenge c with acc^c # 1; the challenge 0 is not among them.
C20_TamperedWitness ==
    (mode = "coprime" /\ ~Consistent /\ Verified /\ G_exp(statement.acc, LastChallenge) # 1) =>
        result.verify = "VerificationFailed"

\* the proof of the prover itself, from non-zero blindings, rejected under a
\* non-zero challenge
C20_Witness ==
    /\ mode = "coprime" /\ ~Consistent /\ Verified
    /\ Proof = unwrap(VerifierChannel_proof(mode, verifier_channel))
    /\ LastChallenge # 0 /\ G_exp(statement.acc, LastChallenge) # 1
    /\ Proof.proof_coprime.message2.alpha5 # 1
    /\ result.verify = "VerificationFailed"

FailedChecks ==
    CASE mode = "root" ->
           LET p == Proof.proof_root
               x == Root_expected(crs, statement, p.message1, LastChallenge, p.message3)
           IN  { k \in {"alpha1", "alpha2", "alpha3", "alpha4"} : x[k] # p.message2[k] }
               \cup (IF is_s_e_in_range(crs, p.message3.s_e) THEN {} ELSE {"s_e"})
      [] mode = "coprime" ->
           LET p == Proof.proof_coprime
               x == Coprime_expected(crs, statement, p.message1, LastChallenge, p.message3)
           IN  { k \in {"alpha2", "alpha3", "alpha4", "alpha5", "alpha6", "alpha7"} :
                   x[k] # p.message2[k] }
               \cup (IF is_s_e_in_range(crs, p.message3.s_e) THEN {} ELSE {"s_e"})
      [] mode = "modeq" ->
           LET p == Proof.proof_modeq
               x == ModEq_expected(crs, statement, LastChallenge, p.message2)
           IN  { k \in {"alpha1", "alpha2"} : x[k] # p.message1[k] }

\* C22: Uniform verification failure.  In Root, Coprime and ModEq verify,
\* whichever non-empty subset of the verification equations and of the range
\* check on s_e fails, the result is the one value VerificationFailed, and it
\* is Ok when no check fails.
C22_UniformFailure ==
    (mode \in {"root", "coprime", "modeq"} /\ Done /\ verifier.cs # <<>>) =>
        result.verify = IF FailedChecks = {} THEN "Ok" ELSE "VerificationFailed"

\* a coprime proof failing alpha5 alone, and reported as VerificationFailed
C22_Witness ==
    /\ mode = "coprime" /\ Done /\ verifier.cs # <<>>
    /\ FailedChecks = {"alpha5"}
    /\ result.verify = "VerificationFailed"

ProveFailed == result.prove \notin {"running", "Ok"}

\* C23: Abort at the first sub-error.  When a step of membership or
\* non-membership prove fails, prove ends at once with that error, no later
\* sub-protocol runs, and proof() on the verifier channel returns Incomplete.
C23_AbortAtFirstError ==
    /\ [](IsComposite(mode) /\ ProveFailed =>
             /\ pc = Failed
             /\ VerifierChannel_proof(mode, verifier_channel) = None)
    /\ [][IsComposite(mode) /\ ProveFailed => UNCHANGED vars]_vars

\* non-membership prove ended by the error of the coprime from_crs, after
\* C_e was sent and before any message of a sub-protocol
C23_Witness ==
    /\ mode = "nonmembership" /\ result.prove = "CRSError"
    /\ is_some(verifier_channel.c_e)
    /\ verifier_channel.coprime.message1 = None
    /\ VerifierChannel_proof(mode, verifier_channel) = None

(***************************************************************************)
(* Completeness of the verifier channel.                                   *)
(***************************************************************************)
MessageSends(sub) ==
    IF sub = "hash_to_prime" THEN {<<sub, "send_proof">>}
    ELSE IF sub = "modeq" THEN {<<sub, "send_message1">>, <<sub, "send_message2">>}
    ELSE {<<sub, "send_message1">>, <<sub, "send_message2">>, <<sub, "send_message3">>}

\* the sends a complete proof of the protocol needs
RequiredSends(m) ==
    CASE m = "membership" ->
           {<<m, "send_c_e">>} \cup MessageSends("root") \cup MessageSends("modeq")
              \cup MessageSends("hash_to_prime")
      [] m = "nonmembership" ->
           {<<m, "send_c_e">>} \cup MessageSends("coprime") \cup MessageSends("modeq")
              \cup MessageSends("hash_to_prime")
      [] OTHER -> MessageSends(m)

FieldOf(op) ==
    CASE op = "send_message1" -> "message1"
      [] op = "send_message2" -> "message2"
      [] op = "send_message3" -> "message3"
      [] op = "send_proof"    -> "proof"

\* the Option field of the channel that the send s fills
Slot(ch, s) == IF s[2] = "send_c_e" THEN ch.c_e ELSE ch[s[1]][FieldOf(s[2])]

\* the part of a returned proof that holds the message of the send s
ProofPart(proof, s) ==
    CASE s[2] = "send_c_e"   -> proof.c_e
      [] s[2] = "send_proof" -> proof.proof_hash_to_prime
      [] OTHER -> LET sub == IF s[1] = "root" THEN proof.proof_root
                             ELSE IF s[1] = "coprime" THEN proof.proof_coprime
                             ELSE proof.proof_modeq
                  IN  sub[FieldOf(s[2])]

WasSent(s) == \E i \in 1..Len(events) : events[i] = <<"prove", s[1], s[2]>>

ChannelProof == VerifierChannel_proof(mode, verifier_channel)

\* C24: Proof completeness.  In every reachable state of a verifier channel
\* proof() returns Incomplete exactly when a required message has not been
\* sent yet; otherwise it returns exactly the messages that were sent, and a
\* message once sent is never replaced.
C24_ProofCompleteness ==
    /\ [](/\ ChannelProof = None <=> \E s \in RequiredSends(mode) : ~WasSent(s)
          /\ \A s \in RequiredSends(mode) : is_some(Slot(verifier_channel, s)) <=> WasSent(s)
          /\ is_some(ChannelProof) =>
                \A s \in RequiredSends(mode) :
                    ProofPart(unwrap(ChannelProof), s) = unwrap(Slot(verifier_channel, s)))
    /\ [][\A s \in RequiredSends(mode) :
              is_some(Slot(verifier_channel, s)) =>
                  Slot(verifier_channel', s) = Slot(verifier_channel, s)]_vars

\* a composite channel that holds C_e and two complete sub-proofs and still
\* answers Incomplete because the hash-to-prime proof is missing
C24_Witness ==
    /\ mode = "membership"
    /\ is_some(verifier_channel.c_e)
    /\ is_some(Root_proof(verifier_channel.root))
    /\ is_some(ModEq_proof(verifier_channel.modeq))
    /\ ~WasSent(<<"hash_to_prime", "send_proof">>)
    /\ ChannelProof = None

\* C25: Borrow conflict.  A channel operation that appends to the shared
\* transcript or draws a challenge, invoked while the transcript is already
\* borrowed, returns a channel borrow error, appends nothing and records no
\* message; invoked on an unused transcript it succeeds and the transcript
\* grows.
C25_BorrowConflict ==
    Returned("channel_operation") =>
        IF call.cell.borrow # 0
        THEN /\ unwrap(ret).result = <<"CouldNotBorrowMut">>
             /\ unwrap(ret).cell = call.cell
             /\ unwrap(ret).channel = ChannelBefore(call)
        ELSE /\ unwrap(ret).result = <<"Ok">>
             /\ Len(unwrap(ret).cell.value.log) > Len(call.cell.value.log)

\* send_message1 of the root channel refused on a mutably borrowed transcript
C25_Witness ==
    /\ Returned("channel_operation")
    /\ call.protocol = "root" /\ call.op = "send_message1"
    /\ call.cell.borrow = -1
    /\ unwrap(ret).result = <<"CouldNotBorrowMut">>
    /\ unwrap(ret).channel.message1 = None

(***************************************************************************)
(* Openings of commitments.                                                *)
(***************************************************************************)
\* the order of a in the group of unknown order
Order(a) == CHOOSE n \in 1..group_order :
               /\ G_pow(a, n) = 1
               /\ \A m \in {1, 2, group_order \div 2} : m < n => G_pow(a, m) # 1

\* the exponent of a base that a value stands for
Exponent(k, base, x) ==
    IF k.scheme = "integer" THEN x % Order(base) ELSE integer_to_bigint(x) % ScalarFieldModulus

SameValue == Exponent(call.commitment, call.commitment.parameters.g, call.value)
               = Exponent(call.commitment, call.commitment.parameters.g, call.opened_value)

SameRandomness ==
    Exponent(call.commitment, call.commitment.parameters.h, call.randomness)
        = Exponent(call.commitment, call.commitment.parameters.h, call.opened_randomness)

Opened == unwrap(ret).opened

FitsScalarField(x) == 0 <= x /\ x < ScalarFieldModulus

\* C27: Integer too big.  Pedersen commit and open return IntegerTooBig when
\* the value or the randomness is negative or not below q.
C27_IntegerTooBig ==
    Returned("open") /\ call.commitment.scheme = "pedersen" =>
        /\ ~(FitsScalarField(call.value) /\ FitsScalarField(call.randomness)) =>
              unwrap(ret).committed = <<"IntegerTooBig">>
        /\ ~(FitsScalarField(call.opened_value) /\ FitsScalarField(call.opened_randomness)) =>
              Opened = <<"IntegerTooBig">>

(***************************************************************************)
(* The Blake2s hash-to-prime search.                                       *)
(***************************************************************************)
HashResult == unwrap(ret).result

HashTrials == unwrap(ret).trials

MaxTrials == u_pow_u(2, index_bit_length(call.crs.parameters.security_level))

\* the message bits of the hashed value
HashedBits ==
    SubSeq(BigInt_to_bits(integer_to_bigint_mod_q(call.e)),
           bigint_bits - MESSAGE_SIZE + 1, bigint_bits)

Rejected(i) == ~is_probably_prime(SnarkHash_candidate(call.crs, HashedBits, i))

\* C28: Bounded search.  The Blake2s hash_to_prime tries the indices 0, 1,
\* 2, ... in increasing order, returns the candidate and the index of the
\* first candidate the primality test does not reject, and returns
\* CouldNotFindIndex when every index below 2^index_bit_length is rejected;
\* it ends after at most 2^index_bit_length trials.
C28_BoundedSearch ==
    Returned("hash_to_prime") /\ HashResult # <<"ValueTooBig">> =>
        /\ HashTrials = [i \in 1..Len(HashTrials) |-> i - 1]
        /\ Len(HashTrials) <= MaxTrials
        /\ \/ /\ HashResult[1] = "Ok"
              /\ HashResult[3] = Len(HashTrials) - 1
              /\ HashResult[2] = SnarkHash_candidate(call.crs, HashedBits, HashResult[3])
              /\ ~Rejected(HashResult[3])
              /\ \A i \in 0..(HashResult[3] - 1) : Rejected(i)
           \/ /\ HashResult = <<"CouldNotFindIndex">>
              /\ Len(HashTrials) = MaxTrials
              /\ \A i \in 0..(MaxTrials - 1) : Rejected(i)

\* a prime found after three rejected candidates
C28_Witness ==
    /\ Returned("hash_to_prime")
    /\ HashResult[1] = "Ok" /\ HashResult[3] >= 3
    /\ HashTrials = [i \in 1..(HashResult[3] + 1) |-> i - 1]

\* C29: Value too big.  The Blake2s hash_to_prime returns ValueTooBig for
\* every e >= 2^MESSAGE_SIZE.
C29_ValueTooBig ==
    Returned("hash_to_prime") /\ call.e >= u_pow_u(2, MESSAGE_SIZE) =>
        HashResult = <<"ValueTooBig">>

\* C30: Field size precondition.  ModEq from_crs refuses a CRS whose
\* field_size_bits is below the bit size of the curve's scalar field.
C30_RefusedAtConstruction ==
    Returned("ModEq_from_crs") /\ call.crs.parameters.field_size_bits < size_in_bits =>
        ~IsOk(unwrap(ret))

(***************************************************************************)
(* Wiring of the sub-protocols inside a composite prove.                   *)
(***************************************************************************)
HashedElement == HashToPrime_hash_to_prime(witness.e).value

\* the responses s_e and s_r of a sub-protocol open C_e = g^e' h^r
ResponsesUse(message, l, e, r) ==
    /\ message.s_e = l.r_e - l.c * e
    /\ message.s_r = l.r_r - l.c * r

WiredAtC_e ==
    Sent(mode, "send_c_e") =>
        /\ prover'.r \in 0..(order_upper_bound - 1)
        /\ prover'.hashed_e = HashedElement
        /\ verifier_channel'.c_e =
              Some(IntegerCommitment_commit(crs.integer_commitment_parameters,
                                            HashedElement, prover'.r))
        /\ prover'.c_e = unwrap(verifier_channel'.c_e)

WiredRoot ==
    /\ Sent("root", "send_message1") =>
          unwrap(verifier_channel'.root.message1).c_w =
              G_op(witness.w, G_exp(crs.integer_commitment_parameters.h, prover'.l.r_2))
    /\ Sent("root", "send_message3") =>
          ResponsesUse(unwrap(verifier_channel'.root.message3), prover.l,
                       HashedElement, prover.r)

WiredCoprime ==
    /\ Sent("coprime", "send_message1") =>
          unwrap(verifier_channel'.coprime.message1).c_b_cap =
              IntegerCommitment_commit(
                  IntegerCommitment_new(statement.c_p, crs.integer_commitment_parameters.h),
                  witness.b, prover'.l.rho_b_cap)
    /\ Sent("coprime", "send_message3") =>
          ResponsesUse(unwrap(verifier_channel'.coprime.message3), prover.l,
                       HashedElement, prover.r)

WiredModEq ==
    Sent("modeq", "send_message2") =>
        /\ ResponsesUse(unwrap(verifier_channel'.modeq.message2), prover.l,
                        HashedElement, prover.r)
        /\ unwrap(verifier_channel'.modeq.message2).s_r_q =
              Field_sub(prover.l.r_r_q_field,
                        Field_mul(integer_to_bigint_mod_q(witness.r_q),
                                  integer_to_bigint_mod_q(prover.l.c)))

WiredHashToPrime ==
    Sent("hash_to_prime", "send_proof") =>
        unwrap(verifier_channel'.hash_to_prime.proof) =
            HashToPrime_prove(crs, [e |-> witness.e, r_q |-> witness.r_q])

BoundStatement == [c_e |-> Proof.c_e, acc |-> statement.c_p, c_e_q |-> statement.c_e_q]

VerifyRan(sub) == \E i \in 1..Len(events) : events[i][1] = "verify" /\ events[i][2] = sub

FirstOk ==
    /\ Len(verifier.cs) >= 1
    /\ IF mode = "membership"
       THEN Root_verify_check(crs, BoundStatement, Proof.proof_root.message1,
                              Proof.proof_root.message2, verifier.cs[1],
                              Proof.proof_root.message3)
       ELSE Coprime_verify_check(crs, BoundStatement, Proof.proof_coprime.message1,
                                 Proof.proof_coprime.message2, verifier.cs[1],
                                 Proof.proof_coprime.message3)

SecondOk ==
    /\ Len(verifier.cs) >= 2
    /\ ModEq_verify_check(crs, BoundStatement, Proof.proof_modeq.message1, verifier.cs[2],
                          Proof.proof_modeq.message2)

ThirdOk ==
    HashToPrime_verify_check(crs, [c_e_q |-> statement.c_e_q], Proof.proof_hash_to_prime)

\* C32: Binding of verify.  Membership and non-membership verify use the
\* C_e of the proof in the Root (Coprime) and the ModEq statement, the
\* caller's C_e_q in the ModEq and the hash-to-prime statement and the
\* caller's c_p as acc; a sub-verification runs only when the ones before it
\* returned Ok, and verify returns Ok only if all three do.
C32_BoundVerification ==
    (IsComposite(mode) /\ Verified) =>
        /\ verifier.c_e = Proof.c_e
        /\ VerifyRan("modeq") <=> FirstOk
        /\ VerifyRan("hash_to_prime") <=> (FirstOk /\ SecondOk)
        /\ result.verify = "Ok" <=> (FirstOk /\ SecondOk /\ ThirdOk)

\* a membership verify against another C_e_q: Root accepts, ModEq rejects,
\* and the hash-to-prime verification is not run
C32_Witness ==
    /\ mode = "membership" /\ Verified
    /\ FirstOk /\ ~SecondOk
    /\ ~VerifyRan("hash_to_prime")
    /\ result.verify = "VerificationFailed"

(***************************************************************************)
(* The CRS tree of setup.                                                  *)
(***************************************************************************)
SetupCRS == unwrap(ret)[2].crs

\* crs_root of membership, crs_coprime of non-membership
FirstCRS == IF call.protocol = "membership" THEN SetupCRS.crs_root ELSE SetupCRS.crs_coprime

\* C33: Consistent CRS tree.  A successful membership or non-membership setup
\* returns a CRS whose crs_root (crs_coprime) and crs_modeq hold the same
\* integer-commitment generators, whose crs_modeq and crs_hash_to_prime hold
\* the same Pedersen generators, and each of whose sub-CRSs holds the
\* Parameters passed to setup; when the hash-to-prime setup fails, setup
\* returns the SetupError and no CRS.
C33_ConsistentCRS ==
    Returned("setup") =>
        IF call.generated[1] = "Ok"
        THEN /\ IsOk(unwrap(ret))
             /\ FirstCRS.integer_commitment_parameters
                    = SetupCRS.crs_modeq.integer_commitment_parameters
             /\ SetupCRS.crs_modeq.pedersen_commitment_parameters
                    = SetupCRS.crs_hash_to_prime.pedersen_commitment_parameters
             /\ SetupCRS.parameters = call.parameters
             /\ FirstCRS.parameters = call.parameters
             /\ SetupCRS.crs_modeq.parameters = call.parameters
             /\ SetupCRS.crs_hash_to_prime.parameters = call.parameters
        ELSE unwrap(ret) = <<"SetupError">>

\* a membership setup that returned a CRS for parameters other than the
\* standard ones
C33_Witness ==
    /\ Returned("setup") /\ call.protocol = "membership"
    /\ IsOk(unwrap(ret))
    /\ call.parameters # Parameters
    /\ SetupCRS.crs_root.integer_commitment_parameters = IntegerCommitment_setup(call.draw1)

(***************************************************************************)
(* What a Fiat-Shamir challenge is computed from.                          *)
(***************************************************************************)
\* the challenge of a sub-protocol started on the transcript t, from its
\* commitment messages alone
ChallengeOf(sub, t, message1, message2) ==
    CASE sub = "root" ->
           Root_receive_challenge(
               Root_send_message2(Root_send_message1(t, Root_channel_new, message1).transcript,
                                  Root_channel_new, message2).transcript, crs)
      [] sub = "coprime" ->
           Coprime_receive_challenge(
               Coprime_send_message2(
                   Coprime_send_message1(t, Coprime_channel_new, message1).transcript,
                   Coprime_channel_new, message2).transcript, crs)
      [] sub = "modeq" ->
           ModEq_receive_challenge(
               ModEq_send_message1(t, ModEq_channel_new, message1).transcript, crs)

\* the transcript a composite hands to its first sub-protocol
AfterC_e(c_e) ==
    IF mode = "membership"
    THEN Membership_send_c_e(Transcript_new(mode), Membership_channel_new, c_e).transcript
    ELSE NonMembership_send_c_e(Transcript_new(mode), NonMembership_channel_new, c_e).transcript

\* the commitment messages of sub-protocol s: those the prover has sent, or
\* those of the proof handed to verify
Commitments(side, s) ==
    IF side = "prove"
    THEN verifier_channel[s]
    ELSE CASE s = "modeq"   -> [message1 |-> Some(Proof.proof_modeq.message1)]
           [] s = "root"    -> [message1 |-> Some(Proof.proof_root.message1),
                                message2 |-> Some(Proof.proof_root.message2)]
           [] s = "coprime" -> [message1 |-> Some(Proof.proof_coprime.message1),
                                message2 |-> Some(Proof.proof_coprime.message2)]

\* the challenge of sub-protocol s started on t, from the commitments of a side
SideChallenge(side, s, t) ==
    ChallengeOf(s, t, unwrap(Commitments(side, s).message1),
                IF s = "modeq" THEN <<>> ELSE unwrap(Commitments(side, s).message2))

C_eOf(side) == IF side = "prove" THEN unwrap(verifier_channel.c_e) ELSE Proof.c_e

\* the k-th challenge of a side
ExpectedChallenge(k, side) ==
    IF ~IsComposite(mode)
    THEN SideChallenge(side, mode, Transcript_new(mode)).value
    ELSE IF k = 1
         THEN SideChallenge(side, FirstSub, AfterC_e(C_eOf(side))).value
         ELSE SideChallenge(side, "modeq",
                            SideChallenge(side, FirstSub, AfterC_e(C_eOf(side))).transcript).value

\* C34: What the challenge depends on.  Every challenge of Root, Coprime and
\* ModEq, drawn by prove or re-derived by verify, is the value computed from
\* the transcript before the sub-protocol started and the commitment
\* messages (M1 and M2 of Root and Coprime, M1 of ModEq) and from nothing
\* else: a verify against another statement or of a proof with another
\* response derives the challenges of the prover.  Stated of the runs that
\* have returned.
C34_ChallengeInputs ==
    /\ pc.phase = "proved" =>
         \A k \in 1..Len(prover.cs) : prover.cs[k] = ExpectedChallenge(k, "prove")
    /\ Done =>
         \A k \in 1..Len(verifier.cs) : verifier.cs[k] = ExpectedChallenge(k, "verify")

\* a membership verify against a C_e_q other than the prover's that has
\* derived both challenges of the prover
C34_Witness ==
    /\ mode = "membership" /\ Verified
    /\ statement.c_e_q # Prover_c_e_q
    /\ Len(verifier.cs) = 2
    /\ verifier.cs = prover.cs

(***************************************************************************)
(* Root proofs from a witness that is no root.                             *)
(***************************************************************************)
\* a verify of the proof the Root prover computed from a w with w^e # acc
WrongRootVerified ==
    /\ mode = "root" /\ Verified
    /\ G_exp(witness.w, witness.e) # statement.acc
    /\ Proof = unwrap(VerifierChannel_proof(mode, verifier_channel))

\* acc / w^e, the factor by which the expected alpha3 misses the prover's
RootDefect == G_op(statement.acc, G_inv(G_exp(witness.w, witness.e)))

\* C35: Root soundness against a wrong witness.  A Root proof the prover
\* computed from a witness with w^e # acc, C_e still being g^e h^r, is
\* rejected by Root.verify with VerificationFailed, whatever the blindings
\* and the challenge are.
C35_AsStated == WrongRootVerified => result.verify = "VerificationFailed"

\* C35: Root soundness against a wrong witness, as the code behaves.  Such a
\* proof is rejected with VerificationFailed, whatever the blindings are,
\* exactly when the challenge c has (acc / w^e)^c # 1; the challenge 0 is
\* not among them.
C35_WrongRoot ==
    WrongRootVerified =>
        (result.verify = "VerificationFailed" <=> G_exp(RootDefect, LastChallenge) # 1)

\* a proof from non-zero blindings rejected under a non-zero challenge
C35_Witness ==
    /\ WrongRootVerified
    /\ LastChallenge # 0 /\ G_exp(RootDefect, LastChallenge) # 1
    /\ Proof.proof_root.message2.alpha3 # 1
    /\ result.verify = "VerificationFailed"

(***************************************************************************)
(* A hash_to_prime that fails inside a composite prove.                    *)
(***************************************************************************)
HashRefused == IsComposite(mode) /\ Protocol_hash_to_prime(crs, witness.e)[1] # "Ok"

\* C36: Failure before C_e.  When hash_to_prime fails inside membership or
\* non-membership prove, prove returns its error before C_e is sent: the
\* proof transcript has had no append and the verifier channel stores no
\* message.
C36_FailBeforeC_e ==
    HashRefused =>
        /\ proof_transcript = Transcript_new(mode)
        /\ verifier_channel = VerifierChannel_new(mode)
        /\ events = <<>>
        /\ pc.phase # "prove" =>
             /\ result.prove = Protocol_hash_to_prime(crs, witness.e)[1]
             /\ prover.c_e = 0

\* a membership prove that has returned ValueTooBig for an element of
\* MESSAGE_SIZE + 1 bits
C36_Witness ==
    /\ mode = "membership" /\ HashRefused
    /\ witness.e = u_pow_u(2, MESSAGE_SIZE)
    /\ pc = Failed
    /\ result.prove = "ValueTooBig"

(***************************************************************************)
(* The arithmetic of Parameters at the ends of u16.                        *)
(***************************************************************************)
\* Ok, InvalidParameters or Panic
Outcome == IF call.fn = "is_valid" THEN unwrap(ret) ELSE unwrap(ret)[1]

\* C37: Total constructors.  For every 16-bit argument from_security_level,
\* from_curve_and_small_prime_size and is_valid return Ok or
\* InvalidParameters: no addition, subtraction or multiplication leaves u16
\* and nothing is divided by zero.
C37_NoOverflow ==
    (call.fn \in Constructors \cup {"is_valid"} /\ is_some(ret)) =>
        Outcome \in {"Ok", "InvalidParameters"}

(***************************************************************************)
(* The scalars of a Pedersen commitment.                                   *)
(***************************************************************************)
\* C38: Reduction modulo the curve order.  For all integers v and r, the
\* negative ones included, the Pedersen commit(v, r) is (v mod q) G +
\* (r mod q) H, v mod q being the representative in [0, q) that
\* integer_mod_q gives in ModEq.
C38_ReducedScalars ==
    (Returned("open") /\ call.commitment.scheme = "pedersen") =>
        unwrap(ret).commitment =
            P_add(P_mul(call.commitment.parameters.g, integer_mod_q(call.value)),
                  P_mul(call.commitment.parameters.h, integer_mod_q(call.randomness)))

(***************************************************************************)
(* The size of the primes of the Blake2s hash_to_prime.                    *)
(***************************************************************************)
\* C39: Size of the prime.  Every value the Blake2s hash_to_prime returns has
\* exactly mu = hash_to_prime_bits bits, the highest of them set:
\* 2^(mu - 1) <= e' < 2^mu.
C39_PrimeSize ==
    (Returned("hash_to_prime") /\ IsOk(HashResult)) =>
        /\ u_pow_u(2, call.crs.parameters.hash_to_prime_bits - 1) <= HashResult[2]
        /\ HashResult[2] < u_pow_u(2, call.crs.parameters.hash_to_prime_bits)

\* a 12-bit prime found after an index was rejected
C39_Witness ==
    /\ Returned("hash_to_prime") /\ IsOk(HashResult)
    /\ call.crs.parameters.hash_to_prime_bits = 12
    /\ HashResult[3] > 0
    /\ is_probably_prime(HashResult[2])

(***************************************************************************)
(* Conversions there and back.                                             *)
(***************************************************************************)
\* C40: Round trips of the encodings.  For every integer x,
\* bigint_to_integer(integer_to_bigint(x mod q)) is x mod q; for every byte
\* string, the big-endian bits of its bytes give back the same bytes.
C40_RoundTrips ==
    /\ Returned("integer_round_trip") =>
         /\ unwrap(ret).reduced \in 0..(ScalarFieldModulus - 1)
         /\ (unwrap(ret).reduced - call.x) % ScalarFieldModulus = 0
         /\ unwrap(ret).back = unwrap(ret).reduced
    /\ Returned("bytes_round_trip") =>
         /\ Len(unwrap(ret).bits) = 8 * Len(call.bytes)
         /\ unwrap(ret).back = call.bytes

\* a negative integer has gone there and back, to q - 5
C40_Witness ==
    /\ Returned("integer_round_trip")
    /\ call.x = 0 - 5
    /\ unwrap(ret).back = ScalarFieldModulus - 5

====
